---- MODULE Spec2Model ----
(***************************************************************************)
(* Model of the Google Calendar MCP server (stdio transport: server.py,    *)
(* HTTP+SSE transport: server_sse.py).                                     *)
(*                                                                         *)
(* Python strings that the code inspects character by character (the       *)
(* datetime arguments) are sequences of one-character strings.  Python's   *)
(* None for such a value is the one-element sequence NoneStr, which no     *)
(* text can equal.  Names that are only compared as a whole (timezone      *)
(* names, tool names, field names) are TLA+ strings, with None == "None".  *)
(***************************************************************************)
EXTENDS Integers, Sequences, FiniteSets, TLC

\* ------------------------------------------------------------------------
\* Bounds of the model
\* ------------------------------------------------------------------------
MaxBusy == 2
MaxSupplied == 1

\* ------------------------------------------------------------------------
\* Text helpers (Python str operations used by the normalizers)
\* ------------------------------------------------------------------------
None == "None"
NoneStr == <<"None">>

Digits == <<"0", "1", "2", "3", "4", "5", "6", "7", "8", "9">>

DigitVal(c) == (CHOOSE i \in 1..10 : Digits[i] = c) - 1

D2(n) == <<Digits[((n \div 10) % 10) + 1], Digits[(n % 10) + 1]>>

Num(s) == IF Len(s) = 2 THEN 10 * DigitVal(s[1]) + DigitVal(s[2])
          ELSE 1000 * DigitVal(s[1]) + 100 * DigitVal(s[2])
               + 10 * DigitVal(s[3]) + DigitVal(s[4])

AllDigits(s) == \A i \in 1..Len(s) : \E k \in 1..10 : Digits[k] = s[i]

\* s[-n:]
LastN(s, n) == IF Len(s) <= n THEN s ELSE SubSeq(s, Len(s) - n + 1, Len(s))

\* c in s
Contains(s, c) == \E i \in 1..Len(s) : s[i] = c

\* s.endswith(suf)
EndsWith(s, suf) == Len(s) >= Len(suf) /\ LastN(s, Len(suf)) = suf

\* bool(s) of an Optional[str]
Truthy(s) == s # NoneStr /\ s # <<>>

\* ------------------------------------------------------------------------
\* Calendar arithmetic (datetime.fromisoformat / datetime.strptime)
\* ------------------------------------------------------------------------
IsLeap(y) == (y % 4 = 0 /\ y % 100 # 0) \/ y % 400 = 0

DaysIn(y, m) == IF m = 2 THEN (IF IsLeap(y) THEN 29 ELSE 28)
                ELSE IF m \in {4, 6, 9, 11} THEN 30 ELSE 31

\* the shape \d{4}-\d{2}-\d{2}
DateShape(s) ==
    /\ Len(s) = 10
    /\ AllDigits(SubSeq(s, 1, 4)) /\ s[5] = "-"
    /\ AllDigits(SubSeq(s, 6, 7)) /\ s[8] = "-"
    /\ AllDigits(SubSeq(s, 9, 10))

\* the shape \d{4}-\d{2}-\d{2}T\d{2}:\d{2}:\d{2}
DateTimeShape(s) ==
    /\ Len(s) = 19
    /\ DateShape(SubSeq(s, 1, 10)) /\ s[11] = "T"
    /\ AllDigits(SubSeq(s, 12, 13)) /\ s[14] = ":"
    /\ AllDigits(SubSeq(s, 15, 16)) /\ s[17] = ":"
    /\ AllDigits(SubSeq(s, 18, 19))

\* the shape \d{4}-\d{2}-\d{2}T\d{2}:\d{2}:\d{2}\.\d+
FractionShape(s) ==
    /\ Len(s) >= 21
    /\ DateTimeShape(SubSeq(s, 1, 19)) /\ s[20] = "."
    /\ AllDigits(SubSeq(s, 21, Len(s)))

\* the fields of a text of DateTimeShape
Fields(s) == [y  |-> Num(SubSeq(s, 1, 4)),   mo |-> Num(SubSeq(s, 6, 7)),
              d  |-> Num(SubSeq(s, 9, 10)),  h  |-> Num(SubSeq(s, 12, 13)),
              mi |-> Num(SubSeq(s, 15, 16)), se |-> Num(SubSeq(s, 18, 19))]

\* the fields name a real instant of the calendar
ValidFields(f) ==
    /\ f.y >= 1
    /\ f.mo \in 1..12
    /\ f.d \in 1..DaysIn(f.y, f.mo)
    /\ f.h \in 0..23 /\ f.mi \in 0..59 /\ f.se \in 0..59

\* the parse succeeds: the text has the shape and names a real instant of
\* the calendar; otherwise Python raises ValueError
Parses(s) == DateTimeShape(s) /\ ValidFields(Fields(s))

\* ------------------------------------------------------------------------
\* Timezone database (pytz): the zones of the model, offsets in minutes.
\* America/New_York observes DST from the second Sunday of March, 02:00, to
\* the first Sunday of November, 02:00 (2024: March 10 and November 3).
\* ------------------------------------------------------------------------
KnownZones == {"UTC", "America/New_York", "Asia/Kolkata"}

UnknownZone == "Mars/Phobos"

\* pytz.timezone(name) raises UnknownTimeZoneError
UnknownTimeZone(name) == name \notin KnownZones

\* localize(dt) is called with is_dst=False: the skipped hour of March 10
\* and the repeated hour of November 3 take the standard offset
NewYorkDst(f) ==
    \/ f.mo \in 4..10
    \/ f.mo = 3 /\ (f.d > 10 \/ (f.d = 10 /\ f.h >= 3))
    \/ f.mo = 11 /\ (f.d < 3 \/ (f.d = 3 /\ f.h < 1))

\* tz.localize(dt).utcoffset(), in minutes, for wall-clock fields f
UtcOffset(zone, f) ==
    IF zone = "America/New_York" THEN (IF NewYorkDst(f) THEN -240 ELSE -300)
    ELSE IF zone = "Asia/Kolkata" THEN 330
    ELSE 0

\* the +HH:MM / -HH:MM suffix that datetime.isoformat() writes
OffsetText(off) ==
    LET a == IF off < 0 THEN -off ELSE off IN
    <<IF off < 0 THEN "-" ELSE "+">> \o D2(a \div 60) \o <<":">> \o D2(a % 60)

\* tz.localize(dt).isoformat() for a text s that parses
Localize(s, zone) == s \o OffsetText(UtcOffset(zone, Fields(s)))

Midnight == <<"T", "0", "0", ":", "0", "0", ":", "0", "0">>

\* texts built from calendar fields
DateText(y, m, d) == D2(y \div 100) \o D2(y % 100) \o <<"-">> \o D2(m) \o <<"-">> \o D2(d)

TimeText(h) == <<"T">> \o D2(h) \o <<":", "3", "0", ":", "0", "0">>

\* ------------------------------------------------------------------------
\* State
\* ------------------------------------------------------------------------
VARIABLES
    transport,         \* which server this process runs: "stdio" or "sse"
    pc,                \* "boot", "idle", "called", "returned" or "exited"
    user_timezone,     \* the module global _user_timezone
    calendar_service,  \* the module global _calendar_service (server_sse.py)
    req,               \* the tool call being served
    calls,             \* remote calls issued by the current invocation
    resp,              \* what the current invocation handed back
    norm,              \* one application of a datetime normalizer
    direct             \* direct calls of get_user_timezone or of
                       \* check_time_slot_conflicts: the inputs and the results

vars == <<transport, pc, user_timezone, calendar_service, req, calls, resp, norm, direct>>

Service == "service"

\* what the remote service and the credential provider do during one
\* invocation: settings is "fail", "novalue" (a reply without "value") or a
\* zone; freebusy is a failure or a list of busy slots; op is the outcome of
\* the tool's own operation
SettingsOutcomes == {"fail", "novalue", "America/New_York", "Asia/Kolkata"}

\* ------------------------------------------------------------------------
\* Tool arguments.  An optional argument other than a datetime is Nothing
\* (the key is absent) or Some(v); a datetime argument is NoneStr or a text.
\* ------------------------------------------------------------------------
Nothing == <<>>
Some(v) == <<v>>
Val(opt) == opt[1]

Visibilities == {"default", "public", "private", "confidential"}
Transparencies == {"opaque", "transparent"}
SendUpdatesValues == {"all", "externalOnly", "none"}

\* optional content fields that reach the event body
CreateOptional == {"description", "location", "colorId", "visibility", "transparency",
                   "recurrence", "reminders", "attendees", "attachments", "conferenceData"}

UpdateOptional == {"summary", "description", "location", "colorId", "visibility",
                   "transparency", "recurrence", "reminders", "attendees"}

\* ------------------------------------------------------------------------
\* Responses and remote calls
\* ------------------------------------------------------------------------
\* a JSON document handed back: kind "resource" (pass-through), "success"
\* or "error" (the envelope {error: ...}, with status "CONFLICT" on a conflict).
\* conflicting_events is <<>> when the document has no such key and <<list>>
\* when it has; the key conflict_check_error of server_sse.py is null in
\* every conflict envelope and is left out
Returned(kind, error, status, cause) ==
    [returned |-> TRUE, kind |-> kind, error |-> error, status |-> status,
     cause |-> cause, exc |-> None, conflicting_events |-> <<>>]

Resource == Returned("resource", None, None, None)
Success == Returned("success", None, None, None)
ErrorEnvelope(error, cause) == Returned("error", error, None, cause)
ConflictEnvelope(error) == Returned("error", error, "CONFLICT", None)

\* an exception left the handler
Raised(exc, error, cause) ==
    [returned |-> FALSE, kind |-> "raised", error |-> error, status |-> None,
     cause |-> cause, exc |-> exc, conflicting_events |-> <<>>]

NoResp == [returned |-> FALSE, kind |-> None, error |-> None, status |-> None,
           cause |-> None, exc |-> None, conflicting_events |-> <<>>]

Call(op, by, ok, args, reply) == [op |-> op, by |-> by, ok |-> ok, args |-> args, reply |-> reply]

SettingsCall(ok) == Call("settings.get", "get_user_timezone", ok, [setting |-> "timezone"], <<>>)

\* busy intervals the free/busy endpoint may report (UTC)
BusySlots == {[start |-> DateText(2024, 1, 10) \o TimeText(20) \o <<"Z">>,
               end   |-> DateText(2024, 1, 10) \o TimeText(21) \o <<"Z">>],
              [start |-> <<"?">>, end |-> <<"?">>]}

RECURSIVE SeqsUpTo(_, _)
SeqsUpTo(S, n) == IF n = 0 THEN {<<>>}
                  ELSE LET shorter == SeqsUpTo(S, n - 1) IN
                       shorter \cup {Append(q, x) : q \in shorter, x \in S}

\* what the credential provider and the remote service do during one
\* invocation
Oracles == [auth : BOOLEAN, settings : SettingsOutcomes, freebusy_ok : BOOLEAN,
            busy : SeqsUpTo(BusySlots, MaxBusy), op_ok : BOOLEAN]

HttpError == "HttpError"
AuthError == "FileNotFoundError"

\* ------------------------------------------------------------------------
\* The execution context threaded through one invocation: the two caches
\* and the remote calls issued so far
\* ------------------------------------------------------------------------
World(tz, svc) == [tz |-> tz, svc |-> svc, calls |-> <<>>]

Issue(w, call) == [w EXCEPT !.calls = Append(@, call)]

\* settings.get("value", "UTC")
SettingsValue(outcome) == IF outcome = "novalue" THEN "UTC" ELSE outcome

\* a resolution that answers "UTC" on a failure and leaves the cache empty
get_user_timezone_forgetful(w, o) ==
    IF w.tz # None THEN [w |-> w, ret |-> w.tz]
    ELSE IF o.settings = "fail"
         THEN [w |-> Issue(w, SettingsCall(FALSE)), ret |-> "UTC"]
         ELSE [w |-> [Issue(w, SettingsCall(TRUE)) EXCEPT !.tz = SettingsValue(o.settings)],
               ret |-> SettingsValue(o.settings)]

\* a resolution that does not look at the cache before it asks
get_user_timezone_uncached(w, o) ==
    IF o.settings = "fail"
    THEN [w |-> [Issue(w, SettingsCall(FALSE)) EXCEPT !.tz = "UTC"], ret |-> "UTC"]
    ELSE [w |-> [Issue(w, SettingsCall(TRUE)) EXCEPT !.tz = SettingsValue(o.settings)],
          ret |-> SettingsValue(o.settings)]

\* server.py get_user_timezone(calendar): [w |-> world after, ret |-> zone]
get_user_timezone(w, o) ==
    IF w.tz # None THEN [w |-> w, ret |-> w.tz]
    ELSE IF o.settings = "fail"
         THEN [w |-> [Issue(w, SettingsCall(FALSE)) EXCEPT !.tz = "UTC"], ret |-> "UTC"]
         ELSE [w |-> [Issue(w, SettingsCall(TRUE)) EXCEPT !.tz = SettingsValue(o.settings)],
               ret |-> SettingsValue(o.settings)]

\* server_sse.py get_user_timezone()
sse_get_user_timezone(w, o) ==
    IF w.tz # None THEN [w |-> w, ret |-> w.tz]
    ELSE IF w.svc = None THEN [w |-> w, ret |-> "UTC"]
    ELSE IF o.settings = "fail"
         THEN [w |-> [Issue(w, SettingsCall(FALSE)) EXCEPT !.tz = "UTC"], ret |-> "UTC"]
         ELSE [w |-> [Issue(w, SettingsCall(TRUE)) EXCEPT !.tz = SettingsValue(o.settings)],
               ret |-> SettingsValue(o.settings)]

\* ------------------------------------------------------------------------
\* Datetime normalizers
\* ------------------------------------------------------------------------
\* datetime.fromisoformat(text) and tz.localize(dt).isoformat() inside the
\* try of server.py validate_and_fix_datetime: every exception is caught and
\* the function returns the variable dt_string, which holds text by then
localize_or_keep(text, default_timezone) ==
    IF Parses(text) /\ ~UnknownTimeZone(default_timezone)
    THEN Localize(text, default_timezone)
    ELSE text

\* a normalizer whose bare-date branch takes a text of any length
validate_and_fix_datetime_any_length(dt_string, default_timezone) ==
    IF ~Truthy(dt_string) THEN dt_string
    ELSE IF \/ EndsWith(dt_string, <<"Z">>)
            \/ Contains(LastN(dt_string, 6), "+")
    THEN dt_string
    ELSE IF Contains(dt_string, "T") /\ Len(dt_string) = 19
    THEN localize_or_keep(dt_string, default_timezone)
    ELSE IF Contains(dt_string, "-")
    THEN localize_or_keep(dt_string \o Midnight, default_timezone)
    ELSE dt_string

\* server.py validate_and_fix_datetime(dt_string, default_timezone).  The
\* bare-date branch reassigns dt_string before it parses.
validate_and_fix_datetime(dt_string, default_timezone) ==
    IF ~Truthy(dt_string) THEN dt_string
    ELSE IF \/ EndsWith(dt_string, <<"Z">>)
            \/ Contains(LastN(dt_string, 6), "+")
            \/ EndsWith(dt_string, <<"+", "0", "0", ":", "0", "0">>)
    THEN dt_string
    ELSE IF Contains(dt_string, "T") /\ Len(dt_string) = 19
    THEN localize_or_keep(dt_string, default_timezone)
    ELSE IF Len(dt_string) = 10 /\ Contains(dt_string, "-")
    THEN localize_or_keep(dt_string \o Midnight, default_timezone)
    ELSE dt_string

\* the text the strptime of server_sse.py validate_and_fix_datetime is given
\* for an input of one of its three shapes, <<>> for any other input
sse_parse_text(dt_string) ==
    IF DateShape(dt_string) THEN dt_string \o Midnight
    ELSE IF DateTimeShape(dt_string) THEN dt_string
    ELSE IF FractionShape(dt_string) THEN SubSeq(dt_string, 1, 19)
    ELSE <<>>

\* the zone object: pytz.timezone(default_timezone), UTC when that raises
sse_tz_obj(zone) == IF UnknownTimeZone(zone) THEN "UTC" ELSE zone

\* strptime (outside any try block) and tz.localize(dt).isoformat(); r is
\* the result of get_user_timezone()
sse_localize(dt_string, text, r) ==
    IF text = <<>> THEN [w |-> r.w, raised |-> FALSE, ret |-> dt_string]
    ELSE IF Parses(text)
    THEN [w |-> r.w, raised |-> FALSE, ret |-> Localize(text, sse_tz_obj(r.ret))]
    ELSE [w |-> r.w, raised |-> TRUE, ret |-> dt_string]

\* server_sse.py validate_and_fix_datetime(dt_string, default_timezone):
\* [w |-> world after, raised |-> an exception left the function, ret |-> text].
\* The parameter default_timezone is overwritten by get_user_timezone()
\* before its first use.
sse_validate_and_fix_datetime(dt_string, default_timezone, w, o) ==
    IF ~Truthy(dt_string) THEN [w |-> w, raised |-> FALSE, ret |-> dt_string]
    ELSE IF \/ EndsWith(dt_string, <<"Z">>)
            \/ Contains(LastN(dt_string, 6), "+")
            \/ Contains(LastN(dt_string, 6), "-")
    THEN [w |-> w, raised |-> FALSE, ret |-> dt_string]
    ELSE sse_localize(dt_string, sse_parse_text(dt_string), sse_get_user_timezone(w, o))

\* ------------------------------------------------------------------------
\* Request validators (schemas.py)
\* ------------------------------------------------------------------------
LiteralOk(opt, allowed) == opt = Nothing \/ Val(opt) \in allowed

\* schemas.py: attachments has max_length
MaxAttachments == 25

\* Reminders accepts the value: every override has a method of the Literal
\* and an integer for minutes
RemindersValid(opt) ==
    \/ opt = Nothing
    \/ \A i \in DOMAIN Val(opt).overrides :
            Val(opt).overrides[i].method \in {"email", "popup"}

\* str.lower() of one character, as email-validator applies it to a domain
LowerCase(c) ==
    IF \E k \in 1..5 : <<"A", "C", "M", "O", "X">>[k] = c
    THEN <<"a", "c", "m", "o", "x">>[CHOOSE k \in 1..5 : <<"A", "C", "M", "O", "X">>[k] = c]
    ELSE c

\* EmailStr accepts the text: one "@" between two non-empty parts and a
\* dot inside the domain
EmailValid(e) ==
    /\ Cardinality({i \in DOMAIN e : e[i] = "@"}) = 1
    /\ e[1] # "@" /\ e[Len(e)] \notin {"@", "."}
    /\ \E i, j \in DOMAIN e : e[i] = "@" /\ e[j] = "." /\ j > i + 1

\* the value EmailStr stores for a text it accepts: the normalized address,
\* with the domain in lower case
EmailStr(e) ==
    [i \in DOMAIN e |->
        IF i > (CHOOSE k \in DOMAIN e : e[k] = "@") THEN LowerCase(e[i]) ELSE e[i]]

\* Attendee accepts the dictionary
AttendeeValid(a) ==
    /\ EmailValid(a.email)
    /\ LiteralOk(a.responseStatus, {"needsAction", "declined", "tentative", "accepted"})
    /\ a.additionalGuests = Nothing \/ Val(a.additionalGuests) >= 0

\* an Attendee dumped without the defaults of its fields
AttendeeWithoutDefaults(a) == [email |-> EmailStr(a.email)]

\* Attendee(**a).model_dump(exclude_none=True): displayName and comment are
\* None and left out, the other fields take their defaults
Attendee(a) ==
    [email |-> EmailStr(a.email),
     optional |-> FALSE,
     responseStatus |-> IF a.responseStatus = Nothing THEN "needsAction"
                        ELSE Val(a.responseStatus),
     additionalGuests |-> IF a.additionalGuests = Nothing THEN 0
                          ELSE Val(a.additionalGuests)]

\* a CreateEventRequest whose attachments field has no max_length
CreateEventRequestUncapped(a) ==
    /\ a.calendarId # Nothing /\ a.summary # Nothing
    /\ a.start_datetime # NoneStr /\ a.end_datetime # NoneStr
    /\ RemindersValid(a.reminders)
    /\ a.attendees = Nothing
        \/ \A i \in DOMAIN Val(a.attendees) : AttendeeValid(Val(a.attendees)[i])
    /\ LiteralOk(a.visibility, Visibilities)
    /\ LiteralOk(a.transparency, Transparencies)

\* CreateEventRequest accepts the arguments
CreateEventRequestValid(a) ==
    /\ a.calendarId # Nothing /\ a.summary # Nothing
    /\ a.start_datetime # NoneStr /\ a.end_datetime # NoneStr
    /\ a.attachments = Nothing \/ Len(Val(a.attachments)) <= MaxAttachments
    /\ RemindersValid(a.reminders)
    /\ a.attendees = Nothing
        \/ \A i \in DOMAIN Val(a.attendees) : AttendeeValid(Val(a.attendees)[i])
    /\ LiteralOk(a.visibility, Visibilities)
    /\ LiteralOk(a.transparency, Transparencies)

\* CreateEventRequest(**arguments): a key absent from the arguments takes
\* the default of its Field
CreateEventRequest(a) ==
    [a EXCEPT !.visibility = IF @ = Nothing THEN Some("default") ELSE @,
              !.transparency = IF @ = Nothing THEN Some("opaque") ELSE @]

\* UpdateEventRequest accepts the arguments
UpdateEventRequestValid(a) ==
    /\ a.calendarId # Nothing /\ a.eventId # Nothing
    /\ RemindersValid(a.reminders)
    /\ a.attendees = Nothing
        \/ \A i \in DOMAIN Val(a.attendees) : AttendeeValid(Val(a.attendees)[i])
    /\ LiteralOk(a.visibility, Visibilities)
    /\ LiteralOk(a.transparency, Transparencies)
    /\ LiteralOk(a.sendUpdates, SendUpdatesValues)

\* UpdateEventRequest(**arguments)
UpdateEventRequest(a) ==
    [a EXCEPT !.sendUpdates = IF @ = Nothing THEN Some("all") ELSE @]

\* ------------------------------------------------------------------------
\* Availability checkers
\* ------------------------------------------------------------------------
FreeBusyCall(by, o, calendar_id, start_time, end_time) ==
    Call("freebusy.query", by, o.freebusy_ok,
         [timeMin |-> start_time, timeMax |-> end_time, items |-> <<calendar_id>>],
         IF o.freebusy_ok THEN o.busy ELSE <<>>)

\* a check that answers "available" whatever the busy list
always_available(w, o, calendar_id, start_time, end_time) ==
    [w   |-> Issue(w, FreeBusyCall("check_time_slot_availability", o,
                                   calendar_id, start_time, end_time)),
     ret |-> TRUE]

\* a check that leaves one busy interval, that of the event being moved,
\* out of account
available_but_for_own_event(w, o, calendar_id, start_time, end_time) ==
    [w   |-> Issue(w, FreeBusyCall("check_time_slot_availability", o,
                                   calendar_id, start_time, end_time)),
     ret |-> IF o.freebusy_ok THEN Len(o.busy) <= 1 ELSE TRUE]

\* server.py check_time_slot_availability: [w |-> world, ret |-> is_available]
check_time_slot_availability(w, o, calendar_id, start_time, end_time) ==
    [w   |-> Issue(w, FreeBusyCall("check_time_slot_availability", o,
                                   calendar_id, start_time, end_time)),
     ret |-> IF o.freebusy_ok THEN Len(o.busy) = 0 ELSE TRUE]

\* a getter that asks the credential provider at every call
get_calendar_service_uncached(w, o) ==
    IF o.auth THEN [w |-> [w EXCEPT !.svc = Service], raised |-> FALSE]
    ELSE [w |-> w, raised |-> TRUE]

\* server_sse.py get_calendar_service(): [w |-> world, raised |-> authorize() failed]
get_calendar_service(w, o) ==
    IF w.svc # None THEN [w |-> w, raised |-> FALSE]
    ELSE IF o.auth THEN [w |-> [w EXCEPT !.svc = Service], raised |-> FALSE]
    ELSE [w |-> w, raised |-> TRUE]

\* ------------------------------------------------------------------------
\* The steps of a tool of server_sse.py.  A context carries the world, the
\* oracle, the effective timezone and the two datetimes through the steps;
\* a step of a stopped context (a return or a caught exception) does nothing.
\* ------------------------------------------------------------------------
Ctx(w, o, start, end) ==
    [w |-> w, o |-> o, stopped |-> FALSE, resp |-> NoResp, tz |-> None,
     start |-> start, end |-> end]

Stop(c, w, r) == [c EXCEPT !.w = w, !.stopped = TRUE, !.resp = r]

Outcome(c) == [w |-> c.w, resp |-> c.resp]

\* calendar = get_calendar_service()
step_service(c, prefix) ==
    IF c.stopped THEN c
    ELSE LET gs == get_calendar_service(c.w, c.o) IN
         IF gs.raised THEN Stop(c, gs.w, ErrorEnvelope(prefix, AuthError))
         ELSE [c EXCEPT !.w = gs.w]

\* user_tz = timezone or get_user_timezone(), when wanted
step_zone(c, wanted, timezone) ==
    IF c.stopped \/ ~wanted THEN c
    ELSE IF timezone # None THEN [c EXCEPT !.tz = timezone]
    ELSE LET r == sse_get_user_timezone(c.w, c.o) IN [c EXCEPT !.w = r.w, !.tz = r.ret]

\* fixed_start = validate_and_fix_datetime(start, user_tz), when wanted
step_fix_start(c, wanted, prefix) ==
    IF c.stopped \/ ~wanted THEN c
    ELSE LET n == sse_validate_and_fix_datetime(c.start, c.tz, c.w, c.o) IN
         IF n.raised THEN Stop(c, n.w, ErrorEnvelope(prefix, "ValueError"))
         ELSE [c EXCEPT !.w = n.w, !.start = n.ret]

\* fixed_end = validate_and_fix_datetime(end, user_tz), when wanted
step_fix_end(c, wanted, prefix) ==
    IF c.stopped \/ ~wanted THEN c
    ELSE LET n == sse_validate_and_fix_datetime(c.end, c.tz, c.w, c.o) IN
         IF n.raised THEN Stop(c, n.w, ErrorEnvelope(prefix, "ValueError"))
         ELSE [c EXCEPT !.w = n.w, !.end = n.ret]

\* the offset, in minutes, of the zone at the UTC instant f: America/New_York
\* changes at 07:00 UTC on March 10 and at 06:00 UTC on November 3
UtcOffsetAt(zone, f) ==
    IF zone = "America/New_York"
    THEN (IF \/ f.mo \in 4..10
             \/ f.mo = 3 /\ (f.d > 10 \/ (f.d = 10 /\ f.h >= 7))
             \/ f.mo = 11 /\ (f.d < 3 \/ (f.d = 3 /\ f.h < 6))
          THEN -240 ELSE -300)
    ELSE IF zone = "Asia/Kolkata" THEN 330
    ELSE 0

\* start_utc.astimezone(user_tz_obj): the wall-clock fields off minutes away
\* from the UTC fields f, a day later or earlier when the clock wraps
astimezone(f, off) ==
    IF f.h * 60 + f.mi + off >= 1440
    THEN [(IF f.d < DaysIn(f.y, f.mo) THEN [f EXCEPT !.d = @ + 1]
           ELSE IF f.mo < 12 THEN [f EXCEPT !.d = 1, !.mo = @ + 1]
           ELSE [f EXCEPT !.d = 1, !.mo = 1, !.y = @ + 1])
          EXCEPT !.h = (f.h * 60 + f.mi + off - 1440) \div 60,
                 !.mi = (f.h * 60 + f.mi + off - 1440) % 60]
    ELSE IF f.h * 60 + f.mi + off < 0
    THEN [(IF f.d > 1 THEN [f EXCEPT !.d = @ - 1]
           ELSE IF f.mo > 1 THEN [f EXCEPT !.d = DaysIn(f.y, f.mo - 1), !.mo = @ - 1]
           ELSE [f EXCEPT !.d = 31, !.mo = 12, !.y = @ - 1])
          EXCEPT !.h = (f.h * 60 + f.mi + off + 1440) \div 60,
                 !.mi = (f.h * 60 + f.mi + off + 1440) % 60]
    ELSE [f EXCEPT !.h = (f.h * 60 + f.mi + off) \div 60,
                   !.mi = (f.h * 60 + f.mi + off) % 60]

\* dt.isoformat() of the wall-clock fields f at offset off
isoformat(f, off) ==
    DateText(f.y, f.mo, f.d) \o <<"T">> \o D2(f.h) \o <<":">> \o D2(f.mi)
        \o <<":">> \o D2(f.se) \o OffsetText(off)

\* datetime.fromisoformat(text.replace("Z", "+00:00")) succeeds on a busy
\* boundary as the free/busy endpoint writes it
FromIsoUtc(text) == Len(text) = 20 /\ text[20] = "Z" /\ Parses(SubSeq(text, 1, 19))

\* start_utc.astimezone(user_tz_obj).isoformat() for a text of FromIsoUtc
start_local(text, user_tz) ==
    isoformat(astimezone(Fields(text), UtcOffsetAt(user_tz, Fields(text))),
              UtcOffsetAt(user_tz, Fields(text)))

\* a formatting that appends every busy slot as it came
raw_conflict(slot, user_tz) == slot

\* the entry appended to formatted_conflicts for one busy slot: the slot
\* itself when anything in the conversion raises
formatted_conflict(slot, user_tz) ==
    IF FromIsoUtc(slot.start) /\ FromIsoUtc(slot.end) /\ ~UnknownTimeZone(user_tz)
    THEN [start |-> start_local(slot.start, user_tz),
          end |-> start_local(slot.end, user_tz),
          timezone |-> user_tz,
          start_display |-> SubSeq(start_local(slot.start, user_tz), 1, 10) \o <<" ">>
                                \o SubSeq(start_local(slot.start, user_tz), 12, 16),
          end_display |-> SubSeq(start_local(slot.end, user_tz), 1, 10) \o <<" ">>
                                \o SubSeq(start_local(slot.end, user_tz), 12, 16)]
    ELSE slot

ConflictReport(w, has_conflicts, conflicts, error) ==
    [w |-> w, has_conflicts |-> has_conflicts, conflicts |-> conflicts, error |-> error]

\* a query whose failure is reported as a conflict
conflicts_query_fail_closed(c, calendar_id) ==
    IF c.stopped THEN ConflictReport(c.w, FALSE, <<>>, c.resp.cause)
    ELSE LET w2 == Issue(c.w, FreeBusyCall("check_time_slot_conflicts", c.o,
                                           calendar_id, c.start, c.end))
         IN  IF c.o.freebusy_ok
             THEN ConflictReport(w2, Len(c.o.busy) > 0,
                                 [i \in DOMAIN c.o.busy |-> formatted_conflict(c.o.busy[i], c.tz)],
                                 None)
             ELSE ConflictReport(w2, TRUE, <<>>, HttpError)

\* a query whose failure is reported without an error text
conflicts_query_silent(c, calendar_id) ==
    IF c.stopped THEN ConflictReport(c.w, FALSE, <<>>, None)
    ELSE LET w2 == Issue(c.w, FreeBusyCall("check_time_slot_conflicts", c.o,
                                           calendar_id, c.start, c.end))
         IN  IF c.o.freebusy_ok
             THEN ConflictReport(w2, Len(c.o.busy) > 0,
                                 [i \in DOMAIN c.o.busy |-> formatted_conflict(c.o.busy[i], c.tz)],
                                 None)
             ELSE ConflictReport(w2, FALSE, <<>>, None)

\* the free/busy query of check_time_slot_conflicts and its report; a
\* stopped context is an exception caught by the function's except clause
conflicts_query(c, calendar_id) ==
    IF c.stopped THEN ConflictReport(c.w, FALSE, <<>>, c.resp.cause)
    ELSE LET w2 == Issue(c.w, FreeBusyCall("check_time_slot_conflicts", c.o,
                                           calendar_id, c.start, c.end))
         IN  IF c.o.freebusy_ok
             THEN ConflictReport(w2, Len(c.o.busy) > 0,
                                 [i \in DOMAIN c.o.busy |-> formatted_conflict(c.o.busy[i], c.tz)],
                                 None)
             ELSE ConflictReport(w2, FALSE, <<>>, HttpError)

\* server_sse.py check_time_slot_conflicts: every exception inside is caught
\* and reported as "no conflicts"
check_time_slot_conflicts(w, o, calendar_id, start_time, end_time) ==
    conflicts_query(
        step_fix_end(
            step_fix_start(
                step_zone(step_service(Ctx(w, o, start_time, end_time), "check"),
                          TRUE, None),
                TRUE, "check"),
            TRUE, "check"),
        calendar_id)

\* a check that runs whether or not both times were given
step_check_always(c, wanted, calendar_id, message) ==
    IF c.stopped THEN c
    ELSE LET chk == check_time_slot_conflicts(c.w, c.o, calendar_id, c.start, c.end) IN
         IF chk.has_conflicts
         THEN Stop(c, chk.w, [ConflictEnvelope(message)
                                EXCEPT !.conflicting_events = Some(chk.conflicts)])
         ELSE [c EXCEPT !.w = chk.w]

\* conflict_check = check_time_slot_conflicts(...), when wanted
step_check(c, wanted, calendar_id, message) ==
    IF c.stopped \/ ~wanted THEN c
    ELSE LET chk == check_time_slot_conflicts(c.w, c.o, calendar_id, c.start, c.end) IN
         IF chk.has_conflicts
         THEN Stop(c, chk.w, [ConflictEnvelope(message)
                                EXCEPT !.conflicting_events = Some(chk.conflicts)])
         ELSE [c EXCEPT !.w = chk.w]

\* ------------------------------------------------------------------------
\* create-event
\* ------------------------------------------------------------------------
\* the event body built from the validated request
event_data(rd, fixed_start, fixed_end, user_tz) ==
    [f \in {"summary", "start", "end"} \cup {g \in CreateOptional : rd[g] # Nothing} |->
        CASE f = "start" -> [dateTime |-> fixed_start, timeZone |-> user_tz]
          [] f = "end" -> [dateTime |-> fixed_end, timeZone |-> user_tz]
          [] f = "attendees" -> [i \in DOMAIN Val(rd[f]) |-> Attendee(Val(rd[f])[i])]
          [] OTHER -> Val(rd[f])]

InsertCall(by, o, rd, body) ==
    Call("events.insert", by, o.op_ok,
         [calendarId |-> Val(rd.calendarId), body |-> body,
          conferenceDataVersion |-> IF "conferenceData" \in DOMAIN body THEN 1 ELSE 0,
          supportsAttachments |-> "attachments" \in DOMAIN body],
         <<>>)

\* user_tz = request_data.timezone or get_user_timezone(calendar), when wanted
stdio_zone(c, wanted, timezone) ==
    IF c.stopped \/ ~wanted THEN c
    ELSE IF timezone # None THEN [c EXCEPT !.tz = timezone]
    ELSE LET r == get_user_timezone(c.w, c.o) IN [c EXCEPT !.w = r.w, !.tz = r.ret]

\* fixed_start and fixed_end = validate_and_fix_datetime(..., user_tz)
stdio_fix(c, fix_start, fix_end) ==
    IF c.stopped THEN c
    ELSE [c EXCEPT
            !.start = IF fix_start THEN validate_and_fix_datetime(@, c.tz) ELSE @,
            !.end = IF fix_end THEN validate_and_fix_datetime(@, c.tz) ELSE @]

\* is_available = check_time_slot_availability(...), when wanted
stdio_check(c, wanted, calendar_id, message) ==
    IF c.stopped \/ ~wanted THEN c
    ELSE LET chk == check_time_slot_availability(c.w, c.o, calendar_id, c.start, c.end) IN
         IF ~chk.ret THEN Stop(c, chk.w, ConflictEnvelope(message))
         ELSE [c EXCEPT !.w = chk.w]

StdioInvalid == Raised("ValueError", "Invalid arguments", "ValidationError")
StdioFailed == Raised("RuntimeError", "Error calling Google Calendar API", HttpError)

\* events.insert and the response of the branch "create-event"
stdio_insert(c, rd) ==
    IF c.stopped THEN c
    ELSE Stop(c, Issue(c.w, InsertCall("handle_call_tool", c.o, rd,
                                       event_data(rd, c.start, c.end, c.tz))),
              IF c.o.op_ok THEN Success ELSE StdioFailed)

\* the branch "create-event" of a valid request up to and including its
\* availability check
stdio_create_checked(a, w, o) ==
    stdio_check(
        stdio_fix(
            stdio_zone(Ctx(w, o, a.start_datetime, a.end_datetime), TRUE, a.timezone),
            TRUE, TRUE),
        TRUE, Val(a.calendarId), "Time slot is not available")

\* server.py handle_call_tool, branch name == "create-event" (inside the try)
stdio_create_event(a, w, o) ==
    IF ~CreateEventRequestValid(a) THEN [w |-> w, resp |-> StdioInvalid]
    ELSE Outcome(stdio_insert(stdio_create_checked(a, w, o), CreateEventRequest(a)))

\* body of events.insert and the response of create_event
step_insert(c, rd) ==
    IF c.stopped THEN c
    ELSE Stop(c, Issue(c.w, InsertCall("create_event", c.o, rd,
                                       event_data(rd, c.start, c.end, c.tz))),
              IF c.o.op_ok THEN Success
              ELSE ErrorEnvelope("Error creating event", HttpError))

\* create_event of a valid request up to and including its conflict check
create_checked(a, w, o) ==
    step_check(
        step_fix_end(
            step_fix_start(
                step_zone(
                    step_service(Ctx(w, o, a.start_datetime, a.end_datetime),
                                 "Error creating event"),
                    TRUE, a.timezone),
                TRUE, "Error creating event"),
            TRUE, "Error creating event"),
        TRUE, Val(a.calendarId), "Time slot is not available")

\* server_sse.py create_event: every parameter is handed to
\* CreateEventRequest explicitly, so no Field default applies
create_event(a, w, o) ==
    IF ~CreateEventRequestValid(a)
    THEN [w |-> w, resp |-> ErrorEnvelope("Invalid arguments", "ValidationError")]
    ELSE Outcome(step_insert(create_checked(a, w, o), a))

\* ------------------------------------------------------------------------
\* update-event
\* ------------------------------------------------------------------------
\* the patch body: the content fields that are not None, then start and
\* end when the request carries a non-empty text for them
update_data(rd, fixed_start, fixed_end, user_tz) ==
    [f \in {g \in UpdateOptional : rd[g] # Nothing}
            \cup (IF Truthy(rd.start_datetime) THEN {"start"} ELSE {})
            \cup (IF Truthy(rd.end_datetime) THEN {"end"} ELSE {}) |->
        CASE f = "start" -> [dateTime |-> fixed_start, timeZone |-> user_tz]
          [] f = "end" -> [dateTime |-> fixed_end, timeZone |-> user_tz]
          [] f = "attendees" -> [i \in DOMAIN Val(rd[f]) |-> Attendee(Val(rd[f])[i])]
          [] OTHER -> Val(rd[f])]

PatchCall(by, o, rd, body) ==
    Call("events.patch", by, o.op_ok,
         [calendarId |-> Val(rd.calendarId), eventId |-> Val(rd.eventId),
          body |-> body, sendUpdates |-> rd.sendUpdates],
         <<>>)

NoFields == "No fields provided to update"

\* a patch that is sent even when the body is empty
stdio_patch_unguarded(c, rd) ==
    IF c.stopped THEN c
    ELSE Stop(c, Issue(c.w, PatchCall("handle_call_tool", c.o, rd,
                                      update_data(rd, c.start, c.end, c.tz))),
              IF c.o.op_ok THEN Success ELSE StdioFailed)

\* the "no fields" test, events.patch and the response of the branch
\* "update-event"
stdio_patch(c, rd) ==
    IF c.stopped THEN c
    ELSE LET body == update_data(rd, c.start, c.end, c.tz) IN
         IF DOMAIN body = {} THEN Stop(c, c.w, ErrorEnvelope(NoFields, None))
         ELSE Stop(c, Issue(c.w, PatchCall("handle_call_tool", c.o, rd, body)),
                   IF c.o.op_ok THEN Success ELSE StdioFailed)

\* server.py handle_call_tool, branch name == "update-event"
stdio_update_event(a, w, o) ==
    IF ~UpdateEventRequestValid(a) THEN [w |-> w, resp |-> StdioInvalid]
    ELSE Outcome(
        stdio_patch(
            stdio_check(
                stdio_fix(
                    stdio_zone(Ctx(w, o, a.start_datetime, a.end_datetime),
                               Truthy(a.start_datetime) \/ Truthy(a.end_datetime),
                               a.timezone),
                    Truthy(a.start_datetime), Truthy(a.end_datetime)),
                Truthy(a.start_datetime) /\ Truthy(a.end_datetime),
                Val(a.calendarId), "New time slot is not available"),
            UpdateEventRequest(a)))

\* the "no fields" test, events.patch and the response of update_event
step_patch(c, rd) ==
    IF c.stopped THEN c
    ELSE LET body == update_data(rd, c.start, c.end, c.tz) IN
         IF DOMAIN body = {} THEN Stop(c, c.w, ErrorEnvelope(NoFields, None))
         ELSE Stop(c, Issue(c.w, PatchCall("update_event", c.o, rd, body)),
                   IF c.o.op_ok THEN Success
                   ELSE ErrorEnvelope("Error updating event", HttpError))

\* server_sse.py update_event
update_event(a, w, o) ==
    IF ~UpdateEventRequestValid(a)
    THEN [w |-> w, resp |-> ErrorEnvelope("Invalid arguments", "ValidationError")]
    ELSE Outcome(
        step_patch(
            step_check(
                step_fix_end(
                    step_fix_start(
                        step_zone(
                            step_service(Ctx(w, o, a.start_datetime, a.end_datetime),
                                         "Error updating event"),
                            Truthy(a.start_datetime) \/ Truthy(a.end_datetime),
                            a.timezone),
                        Truthy(a.start_datetime), "Error updating event"),
                    Truthy(a.end_datetime), "Error updating event"),
                Truthy(a.start_datetime) /\ Truthy(a.end_datetime),
                Val(a.calendarId), "New time slot is not available"),
            UpdateEventRequest(a)))

\* ------------------------------------------------------------------------
\* get-events, list-calendars, get-timezone-info, get-current-date,
\* check-availability, delete-event
\* ------------------------------------------------------------------------
\* ListEventsRequest accepts the arguments (maxResults gt 0, orderBy Literal)
ListEventsRequestValid(a) ==
    /\ a.calendarId # Nothing
    /\ a.maxResults = Nothing \/ Val(a.maxResults) > 0
    /\ LiteralOk(a.orderBy, {"startTime", "updated"})

\* the defaults of the parameters of server_sse.py get_events
get_events_defaults(a) ==
    [a EXCEPT !.calendarId = IF @ = Nothing THEN Some("primary") ELSE @,
              !.maxResults = IF @ = Nothing THEN Some(10) ELSE @,
              !.orderBy = IF @ = Nothing THEN Some("startTime") ELSE @]

\* FreeBusyRequest accepts the arguments: timeMin, timeMax and items are
\* required, every item needs an id, the expansion limits are bounded
FreeBusyRequestValid(a) ==
    /\ a.timeMin # NoneStr /\ a.timeMax # NoneStr
    /\ a.items # Nothing
    /\ \A i \in 1..Len(Val(a.items)) : Val(a.items)[i] # Nothing
    /\ a.groupExpansionMax = Nothing \/ Val(a.groupExpansionMax) <= 100
    /\ a.calendarExpansionMax = Nothing \/ Val(a.calendarExpansionMax) <= 50

\* FreeBusyRequest(...).model_dump(exclude_none=True)
FreeBusyRequest(a) ==
    [a EXCEPT !.timeZone = IF @ = Nothing THEN Some("UTC") ELSE @]

\* DeleteEventRequest accepts the arguments
DeleteEventRequestValid(a) ==
    /\ a.calendarId # Nothing /\ a.eventId # Nothing
    /\ LiteralOk(a.sendUpdates, SendUpdatesValues)

DeleteEventRequest(a) ==
    [a EXCEPT !.sendUpdates = IF @ = Nothing THEN Some("all") ELSE @]

\* the outcome of the tool's own remote operation in server.py
StdioOp(w, call, o, good) ==
    [w |-> Issue(w, call), resp |-> IF o.op_ok THEN good ELSE StdioFailed]

\* server.py handle_call_tool, branch name == "get-events"
stdio_get_events(a, w, o) ==
    IF ~ListEventsRequestValid(a) THEN [w |-> w, resp |-> StdioInvalid]
    ELSE StdioOp(w, Call("events.list", "handle_call_tool", o.op_ok, a, <<>>), o, Resource)

\* server.py handle_call_tool, branch name == "list-calendars"
stdio_list_calendars(a, w, o) ==
    StdioOp(w, Call("calendarList.list", "handle_call_tool", o.op_ok, a, <<>>), o, Resource)

\* server.py handle_call_tool, branches "get-timezone-info" and
\* "get-current-date": an inner try turns every exception into an envelope
stdio_get_timezone_info(a, w, o) ==
    LET tzr == get_user_timezone(w, o) IN
    [w |-> tzr.w,
     resp |-> IF UnknownTimeZone(tzr.ret)
              THEN ErrorEnvelope("Error getting timezone info", "UnknownTimeZoneError")
              ELSE Resource]

\* server.py handle_call_tool, branch name == "check-availability"
stdio_check_availability(a, w, o) ==
    IF ~FreeBusyRequestValid(a) THEN [w |-> w, resp |-> StdioInvalid]
    ELSE StdioOp(w, Call("freebusy.query", "handle_call_tool", o.op_ok,
                         FreeBusyRequest(a), IF o.op_ok THEN o.busy ELSE <<>>),
                 o, Resource)

\* server.py handle_call_tool, branch name == "delete-event"
stdio_delete_event(a, w, o) ==
    IF ~DeleteEventRequestValid(a) THEN [w |-> w, resp |-> StdioInvalid]
    ELSE StdioOp(w, Call("events.delete", "handle_call_tool", o.op_ok,
                         DeleteEventRequest(a), <<>>), o, Success)

\* an exception between the try and the two except clauses of a tool of
\* server_sse.py becomes the envelope {error: <prefix>: <text of the exception>}
SseOp(w, call, o, good, prefix) ==
    [w |-> Issue(w, call),
     resp |-> IF o.op_ok THEN good ELSE ErrorEnvelope(prefix, HttpError)]

\* the arguments of the request with the normalized timeMin and timeMax
Normalized(c, a) == [a EXCEPT !.timeMin = c.start, !.timeMax = c.end]

\* events().list(**request_data) and the response of get_events
step_list(c, a) ==
    IF c.stopped THEN c
    ELSE IF ~ListEventsRequestValid(Normalized(c, a))
    THEN Stop(c, c.w, ErrorEnvelope("Invalid arguments", "ValidationError"))
    ELSE LET gs == get_calendar_service(c.w, c.o) IN
         IF gs.raised
         THEN Stop(c, gs.w, ErrorEnvelope("Error calling Google Calendar API", AuthError))
         ELSE Stop(c, Issue(gs.w, Call("events.list", "get_events", c.o.op_ok,
                                       Normalized(c, a), <<>>)),
                   IF c.o.op_ok THEN Resource
                   ELSE ErrorEnvelope("Error calling Google Calendar API", HttpError))

\* server_sse.py get_events: resolves the timezone and normalizes timeMin
\* and timeMax before it validates
get_events(a, w, o) ==
    Outcome(
        step_list(
            step_fix_end(
                step_fix_start(
                    step_zone(Ctx(w, o, a.timeMin, a.timeMax), TRUE, None),
                    TRUE, "Error calling Google Calendar API"),
                TRUE, "Error calling Google Calendar API"),
            get_events_defaults(a)))

\* server_sse.py list_calendars
list_calendars(a, w, o) ==
    LET gs == get_calendar_service(w, o) IN
    IF gs.raised THEN [w |-> gs.w, resp |-> ErrorEnvelope("Error listing calendars", AuthError)]
    ELSE SseOp(gs.w, Call("calendarList.list", "list_calendars", o.op_ok, a, <<>>), o,
               Resource, "Error listing calendars")

\* server_sse.py get_timezone_info and get_current_date
get_timezone_info(a, w, o) ==
    LET tzr == sse_get_user_timezone(w, o) IN
    [w |-> tzr.w,
     resp |-> IF UnknownTimeZone(tzr.ret)
              THEN ErrorEnvelope("Error getting timezone info", "UnknownTimeZoneError")
              ELSE Resource]

\* freebusy().query(body=...) and the response of check_availability
step_query(c, a) ==
    IF c.stopped THEN c
    ELSE IF ~FreeBusyRequestValid(Normalized(c, a))
    THEN Stop(c, c.w, ErrorEnvelope("Invalid arguments", "ValidationError"))
    ELSE LET gs == get_calendar_service(c.w, c.o) IN
         IF gs.raised
         THEN Stop(c, gs.w, ErrorEnvelope("Error checking availability", AuthError))
         ELSE Stop(c, Issue(gs.w, Call("freebusy.query", "check_availability", c.o.op_ok,
                                       FreeBusyRequest(Normalized(c, a)),
                                       IF c.o.op_ok THEN c.o.busy ELSE <<>>)),
                   IF c.o.op_ok THEN Resource
                   ELSE ErrorEnvelope("Error checking availability", HttpError))

\* server_sse.py check_availability: normalizes before it validates
check_availability(a, w, o) ==
    Outcome(
        step_query(
            step_fix_end(
                step_fix_start(
                    step_zone(Ctx(w, o, a.timeMin, a.timeMax), TRUE, None),
                    TRUE, "Error checking availability"),
                TRUE, "Error checking availability"),
            a))

\* server_sse.py delete_event
delete_event(a, w, o) ==
    IF ~DeleteEventRequestValid(a)
    THEN [w |-> w, resp |-> ErrorEnvelope("Invalid arguments", "ValidationError")]
    ELSE
    LET gs == get_calendar_service(w, o) IN
    IF gs.raised THEN [w |-> gs.w, resp |-> ErrorEnvelope("Error deleting event", AuthError)]
    ELSE SseOp(gs.w, Call("events.delete", "delete_event", o.op_ok,
                          DeleteEventRequest(a), <<>>), o, Success, "Error deleting event")

\* ------------------------------------------------------------------------
\* Inputs of the normalizers
\* ------------------------------------------------------------------------
MaxFraction == 2

BareDates == {DateText(y, m, d) : y \in {2024}, m \in {1, 3, 7, 11, 13}, d \in {3, 10, 31}}

NaiveTimes == {bd \o TimeText(h) : bd \in BareDates, h \in {1, 10, 25}}

Suffixes == {<<"Z">>, <<"+", "0", "2", ":", "0", "0">>, <<"-", "0", "5", ":", "0", "0">>}
                \cup {<<".">> \o [i \in 1..n |-> "5"] : n \in 1..MaxFraction}

OtherTexts == {NoneStr, <<>>,
               <<"t", "o", "d", "a", "y">>,
               <<"2", "0", "2", "4", "/", "0", "1", "/", "1", "5">>,
               <<"n", "e", "x", "t", "-", "w", "e", "e", "k", "!">>,
               DateText(2024, 1, 15) \o <<" ", "1", "0", ":", "0", "0", ":", "0", "0">>,
               <<"0", "9", "3", "0", "-", "0", "5", ":", "0", "0">>,
               <<"0", "9", "3", "0", "+", "0", "2", ":", "0", "0">>,
               DateText(2024, 1, 10) \o <<"T", "1", "0", "-", "0", "5", ":", "0", "0">>}

NormInputs == BareDates \cup NaiveTimes
                \cup {nt \o sfx : nt \in NaiveTimes, sfx \in Suffixes}
                \cup OtherTexts

NoNorm == [impl |-> None, input |-> NoneStr, zone |-> None, tz |-> None,
           svc |-> None, settings |-> None, applied |-> FALSE,
           raised |-> FALSE, out |-> NoneStr, after |-> None,
           again |-> FALSE, raised2 |-> FALSE, out2 |-> NoneStr]

NoReq == [tool |-> None]

\* ------------------------------------------------------------------------
\* Specification of the normalizers alone: the initial state draws an
\* input, a timezone argument and (server_sse.py) a state of the caches and
\* an answer of the settings endpoint; the step applies the normalizer
\* ------------------------------------------------------------------------
InitNormalizer ==
    /\ transport \in {"stdio", "sse"}
    /\ pc = "boot"
    /\ user_timezone = None
    /\ calendar_service = None
    /\ req = NoReq
    /\ calls = <<>>
    /\ resp = NoResp
    /\ direct = [fn |-> None]
    /\ \E s \in NormInputs, z \in KnownZones \cup {UnknownZone} :
        \/ /\ transport = "stdio"
           /\ norm = [NoNorm EXCEPT !.impl = "stdio", !.input = s, !.zone = z]
        \/ /\ transport = "sse"
           /\ \E tz \in KnownZones \cup {None}, svc \in {None, Service},
                 st \in SettingsOutcomes :
                norm = [NoNorm EXCEPT !.impl = "sse", !.input = s, !.zone = z,
                                      !.tz = tz, !.svc = svc, !.settings = st]

NormalizeStdio ==
    /\ norm.impl = "stdio" /\ ~norm.applied
    /\ norm' = [norm EXCEPT !.applied = TRUE,
                            !.out = validate_and_fix_datetime(norm.input, norm.zone)]
    /\ UNCHANGED <<transport, pc, user_timezone, calendar_service, req, calls, resp, direct>>

NormalizeSse ==
    /\ norm.impl = "sse" /\ ~norm.applied
    /\ LET r == sse_validate_and_fix_datetime(norm.input, norm.zone,
                    World(norm.tz, norm.svc), [settings |-> norm.settings]) IN
       norm' = [norm EXCEPT !.applied = TRUE, !.raised = r.raised,
                            !.out = r.ret, !.after = r.w.tz]
    /\ UNCHANGED <<transport, pc, user_timezone, calendar_service, req, calls, resp, direct>>

\* the normalizer applied to its own result, with the same timezone
RenormalizeStdio ==
    /\ norm.impl = "stdio" /\ norm.applied /\ ~norm.again
    /\ norm' = [norm EXCEPT !.again = TRUE,
                            !.out2 = validate_and_fix_datetime(norm.out, norm.zone)]
    /\ UNCHANGED <<transport, pc, user_timezone, calendar_service, req, calls, resp, direct>>

RenormalizeSse ==
    /\ norm.impl = "sse" /\ norm.applied /\ ~norm.raised /\ ~norm.again
    /\ LET r == sse_validate_and_fix_datetime(norm.out, norm.zone,
                    World(norm.after, norm.svc), [settings |-> norm.settings]) IN
       norm' = [norm EXCEPT !.again = TRUE, !.raised2 = r.raised, !.out2 = r.ret]
    /\ UNCHANGED <<transport, pc, user_timezone, calendar_service, req, calls, resp, direct>>

NextNormalizer == NormalizeStdio \/ NormalizeSse \/ RenormalizeStdio \/ RenormalizeSse

SpecNormalizer == InitNormalizer /\ [][NextNormalizer]_vars

\* ------------------------------------------------------------------------
\* Specification of the timezone resolution alone: get_user_timezone is
\* called up to MaxResolves times in a row on an empty cache, and the
\* settings endpoint fails or answers anew at every call
\* ------------------------------------------------------------------------
MaxResolves == 3

InitTimezone ==
    /\ transport \in {"stdio", "sse"}
    /\ pc = "boot"
    /\ user_timezone = None
    /\ calendar_service \in (IF transport = "sse" THEN {None, Service} ELSE {None})
    /\ req = NoReq
    /\ calls = <<>>
    /\ resp = NoResp
    /\ norm = NoNorm
    /\ direct = [fn |-> "get_user_timezone", log |-> <<>>, handles |-> <<>>]

\* the call returned r while the settings endpoint was in state st
Resolved(st, r) ==
    /\ user_timezone' = r.w.tz
    /\ calls' = r.w.calls
    /\ direct' = [direct EXCEPT !.log = Append(@, [settings |-> st,
                                                    handle |-> calendar_service # None,
                                                    cache |-> r.w.tz,
                                                    queried |-> r.w.calls # <<>>,
                                                    ret |-> r.ret])]
    /\ UNCHANGED <<transport, pc, calendar_service, req, resp, norm>>

GetUserTimezone ==
    /\ direct.fn = "get_user_timezone" /\ Len(direct.log) < MaxResolves
    /\ \E st \in SettingsOutcomes :
        Resolved(st, IF transport = "stdio"
                     THEN get_user_timezone(World(user_timezone, calendar_service),
                                            [settings |-> st])
                     ELSE sse_get_user_timezone(World(user_timezone, calendar_service),
                                                [settings |-> st]))

\* an invocation obtained its handle: asked tells whether authorize() ran,
\* built whether build() did, svc is the module's cache afterwards
Acquired(asked, built, svc) ==
    /\ calendar_service' = svc
    /\ direct' = [direct EXCEPT !.handles = Append(@, [asked |-> asked, built |-> built])]
    /\ UNCHANGED <<transport, pc, user_timezone, req, calls, resp, norm>>

\* server.py handle_call_tool runs "creds = authorize()" and "calendar =
\* build(...)" at every invocation and keeps the handle in a local variable;
\* the tools of server_sse.py call get_calendar_service()
GetCalendarService ==
    /\ direct.fn = "get_user_timezone" /\ Len(direct.handles) < MaxResolves
    /\ \E auth \in BOOLEAN :
        IF transport = "stdio"
        THEN Acquired(TRUE, auth, calendar_service)
        ELSE Acquired(calendar_service = None, calendar_service = None /\ auth,
                      get_calendar_service(World(user_timezone, calendar_service),
                                           [auth |-> auth]).w.svc)

NextTimezone == GetUserTimezone \/ GetCalendarService

SpecTimezone == InitTimezone /\ [][NextTimezone]_vars

\* ------------------------------------------------------------------------
\* Specification of concurrent first use of the timezone cache: MaxThreads
\* invocations run get_user_timezone at the same time, each statement of
\* the function being one step.  The user's setting is the same for the
\* whole run; each settings query may fail on its own.
\* ------------------------------------------------------------------------
MaxThreads == 2

Threads == 1..MaxThreads

InitRace ==
    /\ transport \in {"stdio", "sse"}
    /\ pc = "boot"
    /\ user_timezone = None
    /\ calendar_service \in (IF transport = "sse" THEN {None, Service} ELSE {None})
    /\ req = NoReq
    /\ calls = <<>>
    /\ resp = NoResp
    /\ norm = NoNorm
    /\ \E st \in SettingsOutcomes \ {"fail"} :
        direct = [fn |-> "race", setting |-> st,
                  th |-> [t \in Threads |-> [at |-> "test", val |-> None, ret |-> None]]]

\* thread t goes on at statement at with the local value val; ret is what
\* its call returned
Moved(t, at, val, ret) ==
    direct' = [direct EXCEPT !.th[t] = [at |-> at, val |-> val, ret |-> ret]]

\* "if _user_timezone is not None: return _user_timezone"; in server_sse.py
\* also "if _calendar_service is None: return "UTC""
TestCache(t) ==
    /\ direct.fn = "race" /\ direct.th[t].at = "test"
    /\ IF user_timezone # None THEN Moved(t, "done", None, user_timezone)
       ELSE IF transport = "sse" /\ calendar_service = None
            THEN Moved(t, "done", None, "UTC")
            ELSE Moved(t, "query", None, None)
    /\ UNCHANGED <<transport, pc, user_timezone, calendar_service, req, calls, resp, norm>>

\* "settings().get(setting="timezone").execute()" and "settings.get("value",
\* "UTC")", or the exception that leads to the except clause
QuerySettings(t) ==
    /\ direct.fn = "race" /\ direct.th[t].at = "query"
    /\ \E st \in {"fail", direct.setting} :
        /\ calls' = Append(calls, SettingsCall(st # "fail"))
        /\ Moved(t, "write", IF st = "fail" THEN "UTC" ELSE SettingsValue(st), None)
    /\ UNCHANGED <<transport, pc, user_timezone, calendar_service, req, resp, norm>>

\* "_user_timezone = ..." of the try block or of the except clause
WriteCache(t) ==
    /\ direct.fn = "race" /\ direct.th[t].at = "write"
    /\ user_timezone' = direct.th[t].val
    /\ Moved(t, "return", direct.th[t].val, None)
    /\ UNCHANGED <<transport, pc, calendar_service, req, calls, resp, norm>>

\* "return _user_timezone" reads the global again
ReturnCache(t) ==
    /\ direct.fn = "race" /\ direct.th[t].at = "return"
    /\ Moved(t, "done", direct.th[t].val, user_timezone)
    /\ UNCHANGED <<transport, pc, user_timezone, calendar_service, req, calls, resp, norm>>

NextRace ==
    \E t \in Threads : TestCache(t) \/ QuerySettings(t) \/ WriteCache(t) \/ ReturnCache(t)

SpecRace == InitRace /\ [][NextRace]_vars

\* ------------------------------------------------------------------------
\* Tool calls the client may send
\* ------------------------------------------------------------------------
WinterStart == DateText(2024, 1, 10) \o TimeText(10)
WinterEnd == DateText(2024, 1, 10) \o TimeText(11)
BadStart == DateText(2024, 13, 10) \o TimeText(10)

\* (start_datetime, end_datetime) of create-event
DtPairs == {<<WinterStart, WinterEnd>>,
            <<DateText(2024, 7, 10) \o TimeText(10), DateText(2024, 7, 10) \o TimeText(11)>>,
            <<DateText(2024, 1, 10), DateText(2024, 1, 31)>>,
            <<WinterStart \o <<"Z">>, WinterEnd \o <<"Z">>>>,
            <<BadStart, WinterEnd>>,
            <<WinterStart, DateText(2024, 13, 10)>>}

\* values a client may give to an optional field, in a fixed order
FieldValues(f) ==
    CASE f = "visibility" -> <<"public", "bogus">>
      [] f = "transparency" -> <<"transparent", "bogus">>
      [] f = "sendUpdates" -> <<"none", "bogus">>
      [] f = "reminders" ->
            <<[useDefault |-> FALSE, overrides |-> <<[method |-> "popup", minutes |-> 10]>>],
              [useDefault |-> FALSE, overrides |-> <<[method |-> "popup", minutes |-> -5]>>],
              [useDefault |-> FALSE, overrides |-> <<[method |-> "sms", minutes |-> 10]>>]>>
      [] f = "attachments" ->
            <<[i \in 1..MaxAttachments |-> [fileId |-> "file"]],
              [i \in 1..(MaxAttachments + 1) |-> [fileId |-> "file"]]>>
      [] f = "attendees" ->
            <<<<[email |-> <<"a", "@", "x", ".", "c", "o", "m">>,
                 responseStatus |-> Nothing, additionalGuests |-> Nothing]>>,
              <<[email |-> <<"A", "@", "X", ".", "C", "O", "M">>,
                 responseStatus |-> Nothing, additionalGuests |-> Nothing],
                [email |-> <<"a", "@", "x", ".", "c", "o", "m">>,
                 responseStatus |-> Some("accepted"), additionalGuests |-> Some(2)]>>,
              <<[email |-> <<"a", ".", "x">>,
                 responseStatus |-> Nothing, additionalGuests |-> Nothing]>>,
              <<[email |-> <<"a", "@", "x", ".", "c", "o", "m">>,
                 responseStatus |-> Nothing, additionalGuests |-> Some(-1)]>>>>
      [] OTHER -> <<"given">>

\* the ways to supply at most MaxSupplied of the optional fields F
Supplied(F) ==
    {[f \in DOMAIN k |-> FieldValues(f)[k[f]]] :
        k \in {x \in UNION {[S -> 1..4] :
                        S \in {T \in SUBSET F : Cardinality(T) <= MaxSupplied}} :
                 \A f \in DOMAIN x : x[f] <= Len(FieldValues(f))}}

With(base, v) == [f \in DOMAIN base |-> IF f \in DOMAIN v THEN Some(v[f]) ELSE base[f]]

CreateBase ==
    [calendarId |-> Some("primary"), summary |-> Some("Lunch"),
     start_datetime |-> WinterStart, end_datetime |-> WinterEnd, timezone |-> None,
     description |-> Nothing, location |-> Nothing, colorId |-> Nothing,
     visibility |-> Nothing, transparency |-> Nothing, recurrence |-> Nothing,
     reminders |-> Nothing, attendees |-> Nothing, attachments |-> Nothing,
     conferenceData |-> Nothing]

CreateArgs ==
    {[CreateBase EXCEPT !.start_datetime = p[1], !.end_datetime = p[2], !.timezone = z] :
        p \in DtPairs, z \in {None, "America/New_York", UnknownZone}}
    \cup {With(CreateBase, v) : v \in Supplied(CreateOptional)}

UpdateBase ==
    [calendarId |-> Some("primary"), eventId |-> Some("evt1"),
     start_datetime |-> NoneStr, end_datetime |-> NoneStr, timezone |-> None,
     summary |-> Nothing, description |-> Nothing, location |-> Nothing,
     colorId |-> Nothing, visibility |-> Nothing, transparency |-> Nothing,
     recurrence |-> Nothing, reminders |-> Nothing, attendees |-> Nothing,
     sendUpdates |-> Nothing]

\* every combination of the times without content, and every supplied
\* content with no time or with a start alone
UpdateArgs ==
    {[UpdateBase EXCEPT !.start_datetime = st, !.end_datetime = en, !.timezone = z] :
        st \in {NoneStr, <<>>, WinterStart, DateText(2024, 1, 10), BadStart},
        en \in {NoneStr, <<>>, WinterEnd}, z \in {None, "America/New_York"}}
    \cup {[With(UpdateBase, v) EXCEPT !.start_datetime = st] :
            v \in Supplied(UpdateOptional \cup {"sendUpdates"}),
            st \in {NoneStr, WinterStart}}

GetEventsArgs ==
    [calendarId : {Some("primary")},
     timeMin : {NoneStr, WinterStart, DateText(2024, 1, 10), BadStart},
     timeMax : {NoneStr, WinterEnd},
     maxResults : {Nothing, Some(5), Some(0)},
     singleEvents : {Nothing},
     orderBy : {Nothing, Some("updated"), Some("bogus")}]

\* check-availability as server.py accepts it
StdioCheckArgs ==
    [timeMin : {WinterStart \o <<"Z">>, BadStart, NoneStr}, timeMax : {WinterEnd \o <<"Z">>},
     items : {Nothing, Some(<<Some("primary")>>), Some(<<Nothing>>)},
     timeZone : {Nothing},
     groupExpansionMax : {Nothing, Some(100), Some(101)},
     calendarExpansionMax : {Nothing, Some(50), Some(51)}]

\* check_availability(timeMin, timeMax, items) of server_sse.py has no other
\* parameter, and all three are required
SseCheckArgs ==
    {a \in StdioCheckArgs : /\ a.timeMin # NoneStr
                            /\ a.items # Nothing
                            /\ a.groupExpansionMax = Nothing
                            /\ a.calendarExpansionMax = Nothing}

DeleteArgs ==
    [calendarId : {Some("primary")}, eventId : {Some("evt1")},
     sendUpdates : {Nothing, Some("none"), Some("bogus")}]

NoArgs == <<>>

Req(tool, A) == {[tool |-> tool, args |-> a] : a \in A}

CommonRequests ==
    Req("get-events", GetEventsArgs) \cup Req("list-calendars", {NoArgs})
    \cup Req("get-timezone-info", {NoArgs}) \cup Req("get-current-date", {NoArgs})
    \cup Req("create-event", CreateArgs) \cup Req("update-event", UpdateArgs)
    \cup Req("delete-event", DeleteArgs)

\* server.py receives any name and any argument dictionary: required keys
\* may be missing
StdioRequests ==
    CommonRequests \cup Req("check-availability", StdioCheckArgs)
    \cup Req("no-such-tool", {NoArgs})
    \cup Req("get-events", {[a EXCEPT !.calendarId = Nothing] : a \in GetEventsArgs})
    \cup Req("create-event", {[CreateBase EXCEPT !.summary = Nothing]})
    \cup Req("update-event", {[UpdateBase EXCEPT !.eventId = Nothing]})
    \cup Req("delete-event", {[a EXCEPT !.eventId = Nothing] : a \in DeleteArgs})

\* the tools of server_sse.py are called with their required parameters
\* bound; get_events has a default for calendarId
SseRequests ==
    CommonRequests \cup Req("check-availability", SseCheckArgs)
    \cup Req("get-events", {[a EXCEPT !.calendarId = Nothing] : a \in GetEventsArgs})

\* ------------------------------------------------------------------------
\* Specification of check_time_slot_conflicts alone: the initial state
\* draws the two caches, the two times and what the credential provider
\* and the remote service will do; the step applies the function
\* ------------------------------------------------------------------------

InitConflicts ==
    /\ transport = "sse"
    /\ pc = "boot"
    /\ user_timezone \in KnownZones \cup {None}
    /\ calendar_service \in {None, Service}
    /\ req = NoReq
    /\ calls = <<>>
    /\ resp = NoResp
    /\ norm = NoNorm
    /\ \E o \in {x \in Oracles : x.op_ok /\ (~x.freebusy_ok => x.busy = <<>>)},
          p \in {<<WinterStart, WinterEnd>>,
                 <<WinterStart \o <<"Z">>, WinterEnd \o <<"Z">>>>,
                 <<BadStart, WinterEnd>>} :
        direct = [fn |-> "check_time_slot_conflicts", o |-> o,
                  start_time |-> p[1], end_time |-> p[2], applied |-> FALSE,
                  has_conflicts |-> FALSE, conflicts |-> <<>>, error |-> None]

\* the function returned the report r
Reported(r) ==
    /\ user_timezone' = r.w.tz
    /\ calendar_service' = r.w.svc
    /\ calls' = r.w.calls
    /\ direct' = [direct EXCEPT !.applied = TRUE, !.has_conflicts = r.has_conflicts,
                                !.conflicts = r.conflicts, !.error = r.error]
    /\ UNCHANGED <<transport, pc, req, resp, norm>>

CheckTimeSlotConflicts ==
    /\ direct.fn = "check_time_slot_conflicts" /\ ~direct.applied
    /\ Reported(check_time_slot_conflicts(World(user_timezone, calendar_service), direct.o,
                                          "primary", direct.start_time, direct.end_time))

NextConflicts == CheckTimeSlotConflicts

SpecConflicts == InitConflicts /\ [][NextConflicts]_vars

\* ------------------------------------------------------------------------
\* Specification of create-event next to other writers of the calendar: an
\* invocation runs up to its availability check in one step and issues
\* events.insert in a later one; in between, other invocations and an
\* external actor may act.  The free/busy endpoint reports the events of
\* the calendar that overlap the queried window and always answers here;
\* events.insert, when the service accepts it, does not look at overlaps.
\* ------------------------------------------------------------------------
MaxExternal == 1

\* windows of 2024-01-10, in hours (UTC), that a writer may ask for
Windows == {<<10, 11>>, <<10, 12>>, <<11, 12>>}

Overlaps(a, b) == a[1] < b[2] /\ b[1] < a[2]

WindowArgs(win) ==
    [CreateBase EXCEPT !.start_datetime = DateText(2024, 1, 10) \o TimeText(win[1]) \o <<"Z">>,
                       !.end_datetime = DateText(2024, 1, 10) \o TimeText(win[2]) \o <<"Z">>]

\* the busy list of the free/busy endpoint for the window win
BusyIn(events, win) ==
    [i \in DOMAIN SelectSeq(events, LAMBDA e : Overlaps(e.win, win)) |->
        [start |-> WindowArgs(SelectSeq(events, LAMBDA e : Overlaps(e.win, win))[i].win).start_datetime,
         end |-> WindowArgs(SelectSeq(events, LAMBDA e : Overlaps(e.win, win))[i].win).end_datetime]]

InitCalendar ==
    /\ transport \in {"stdio", "sse"}
    /\ pc = "boot"
    /\ user_timezone = "UTC"
    /\ calendar_service = IF transport = "sse" THEN Service ELSE None
    /\ req = NoReq
    /\ calls = <<>>
    /\ resp = NoResp
    /\ norm = NoNorm
    /\ direct = [fn |-> "create_event", events |-> <<>>, inv |-> <<>>]

\* create-event asked for the window win and ran up to its check, ending
\* in the context c
Checked(win, c) ==
    /\ direct' = [direct EXCEPT !.inv = Append(@, [win |-> win, free |-> ~c.stopped,
                                                    done |-> c.stopped, c |-> c])]
    /\ UNCHANGED <<transport, pc, user_timezone, calendar_service, req, calls, resp, norm>>

CheckSlot ==
    /\ direct.fn = "create_event" /\ Len(direct.inv) < MaxThreads
    /\ \E win \in Windows, op \in BOOLEAN :
        IF transport = "stdio"
        THEN Checked(win, stdio_create_checked(WindowArgs(win),
                            World(user_timezone, calendar_service),
                            [auth |-> TRUE, settings |-> "fail", freebusy_ok |-> TRUE,
                             busy |-> BusyIn(direct.events, win), op_ok |-> op]))
        ELSE Checked(win, create_checked(WindowArgs(win),
                            World(user_timezone, calendar_service),
                            [auth |-> TRUE, settings |-> "fail", freebusy_ok |-> TRUE,
                             busy |-> BusyIn(direct.events, win), op_ok |-> op]))

\* an insert that looks at the calendar once more
insert_if_still_free(c, busy_now, rd) ==
    IF busy_now # <<>> THEN Stop(c, c.w, ConflictEnvelope("Time slot is not available"))
    ELSE IF transport = "stdio" THEN stdio_insert(c, CreateEventRequest(rd))
    ELSE step_insert(c, rd)

\* the rest of create-event after a check that found the window free:
\* events.insert and the response, whatever the calendar holds by now
insert_after_check(c, busy_now, rd) ==
    IF transport = "stdio" THEN stdio_insert(c, CreateEventRequest(rd))
    ELSE step_insert(c, rd)

\* invocation i ended in the context c
Inserted(i, c) ==
    /\ direct' = [direct EXCEPT
            !.inv[i].done = TRUE, !.inv[i].c = c,
            !.events = IF \E k \in DOMAIN c.w.calls :
                              c.w.calls[k].op = "events.insert" /\ c.w.calls[k].ok
                       THEN Append(@, [win |-> direct.inv[i].win, by |-> i])
                       ELSE @]
    /\ UNCHANGED <<transport, pc, user_timezone, calendar_service, req, calls, resp, norm>>

InsertEvent ==
    /\ direct.fn = "create_event"
    /\ \E i \in DOMAIN direct.inv :
        /\ ~direct.inv[i].done
        /\ Inserted(i, insert_after_check(direct.inv[i].c,
                                          BusyIn(direct.events, direct.inv[i].win),
                                          WindowArgs(direct.inv[i].win)))

\* another client of the calendar adds an event (by = 0)
ExternalInsert ==
    /\ direct.fn = "create_event"
    /\ Len(SelectSeq(direct.events, LAMBDA e : e.by = 0)) < MaxExternal
    /\ \E win \in Windows :
        direct' = [direct EXCEPT !.events = Append(@, [win |-> win, by |-> 0])]
    /\ UNCHANGED <<transport, pc, user_timezone, calendar_service, req, calls, resp, norm>>

NextCalendar == CheckSlot \/ InsertEvent \/ ExternalInsert

SpecCalendar == InitCalendar /\ [][NextCalendar]_vars

\* ------------------------------------------------------------------------
\* The server process
\* ------------------------------------------------------------------------
Init ==
    /\ transport \in {"stdio", "sse"}
    /\ pc = "boot"
    /\ user_timezone = None
    /\ calendar_service = None
    /\ req = NoReq
    /\ calls = <<>>
    /\ resp = NoResp
    /\ norm = NoNorm
    /\ direct = [fn |-> None]

\* the oracles that differ in something the invocation can observe: the
\* settings endpoint is asked only while the timezone cache is empty,
\* server_sse.py asks the credential provider only while it has no handle
RelevantOracles ==
    {o \in Oracles :
        /\ user_timezone # None => o.settings = "fail"
        /\ (transport = "sse" /\ calendar_service # None) => o.auth
        /\ req.tool \notin {"create-event", "update-event"} => o.freebusy_ok
        /\ req.tool \notin {"create-event", "update-event", "check-availability"}
                => o.busy = <<>>
        /\ ~o.freebusy_ok => o.busy = <<>>}

\* server.py main(): authorize() at startup, sys.exit(1) when it fails
main ==
    /\ pc = "boot" /\ transport = "stdio"
    /\ \E ok \in BOOLEAN : pc' = IF ok THEN "idle" ELSE "exited"
    /\ UNCHANGED <<transport, user_timezone, calendar_service, req, calls, resp, norm, direct>>

\* server_sse.py main_sse() with initialize_calendar_service()
main_sse ==
    /\ pc = "boot" /\ transport = "sse"
    /\ \E ok \in BOOLEAN, st \in SettingsOutcomes :
        IF ok
        THEN /\ calendar_service' = Service
             /\ user_timezone' = IF st = "fail" THEN "UTC" ELSE SettingsValue(st)
             /\ calls' = <<Call("settings.get", "initialize_calendar_service",
                                st # "fail", [setting |-> "timezone"], <<>>)>>
             /\ pc' = "idle"
        ELSE /\ pc' = "exited"
             /\ UNCHANGED <<calendar_service, user_timezone, calls>>
    /\ UNCHANGED <<transport, req, resp, norm, direct>>

\* the FastMCP object mcp of server_sse.py served by a runner that imports
\* the module and does not call main_sse(): both caches start empty
import_server_sse ==
    /\ pc = "boot" /\ transport = "sse"
    /\ pc' = "idle"
    /\ UNCHANGED <<transport, user_timezone, calendar_service, req, calls, resp, norm, direct>>

\* the client calls a tool
CallTool ==
    /\ pc = "idle"
    /\ \E r \in (IF transport = "stdio" THEN StdioRequests ELSE SseRequests) : req' = r
    /\ calls' = <<>>
    /\ resp' = NoResp
    /\ pc' = "called"
    /\ UNCHANGED <<transport, user_timezone, calendar_service, norm, direct>>

\* server.py handle_call_tool(name, arguments): authorize() and build() run
\* before the try block
handle_call_tool(name, a, w, o) ==
    IF ~o.auth THEN [w |-> w, resp |-> Raised(AuthError, None, AuthError)]
    ELSE IF name = "get-events" THEN stdio_get_events(a, w, o)
    ELSE IF name = "list-calendars" THEN stdio_list_calendars(a, w, o)
    ELSE IF name \in {"get-timezone-info", "get-current-date"}
         THEN stdio_get_timezone_info(a, w, o)
    ELSE IF name = "check-availability" THEN stdio_check_availability(a, w, o)
    ELSE IF name = "create-event" THEN stdio_create_event(a, w, o)
    ELSE IF name = "delete-event" THEN stdio_delete_event(a, w, o)
    ELSE IF name = "update-event" THEN stdio_update_event(a, w, o)
    ELSE [w |-> w, resp |-> Raised("RuntimeError", "Error calling Google Calendar API",
                                   "Unknown tool")]

\* one invocation that ends with outcome out
Finish(out) ==
    /\ user_timezone' = out.w.tz
    /\ calendar_service' = out.w.svc
    /\ calls' = out.w.calls
    /\ resp' = out.resp
    /\ pc' = "returned"
    /\ UNCHANGED <<transport, req, norm, direct>>

HandleCallTool ==
    /\ pc = "called" /\ transport = "stdio"
    /\ \E o \in RelevantOracles :
        Finish(handle_call_tool(req.tool, req.args,
                                World(user_timezone, calendar_service), o))

\* the tools of server_sse.py, one action for each decorated function
SseCalled(name) == pc = "called" /\ transport = "sse" /\ req.tool = name

GetEvents ==
    /\ SseCalled("get-events")
    /\ \E o \in RelevantOracles :
        Finish(get_events(req.args, World(user_timezone, calendar_service), o))

ListCalendars ==
    /\ SseCalled("list-calendars")
    /\ \E o \in RelevantOracles :
        Finish(list_calendars(req.args, World(user_timezone, calendar_service), o))

GetTimezoneInfo ==
    /\ SseCalled("get-timezone-info")
    /\ \E o \in RelevantOracles :
        Finish(get_timezone_info(req.args, World(user_timezone, calendar_service), o))

GetCurrentDate ==
    /\ SseCalled("get-current-date")
    /\ \E o \in RelevantOracles :
        Finish(get_timezone_info(req.args, World(user_timezone, calendar_service), o))

CheckAvailability ==
    /\ SseCalled("check-availability")
    /\ \E o \in RelevantOracles :
        Finish(check_availability(req.args, World(user_timezone, calendar_service), o))

CreateEvent ==
    /\ SseCalled("create-event")
    /\ \E o \in RelevantOracles :
        Finish(create_event(req.args, World(user_timezone, calendar_service), o))

DeleteEvent ==
    /\ SseCalled("delete-event")
    /\ \E o \in RelevantOracles :
        Finish(delete_event(req.args, World(user_timezone, calendar_service), o))

UpdateEvent ==
    /\ SseCalled("update-event")
    /\ \E o \in RelevantOracles :
        Finish(update_event(req.args, World(user_timezone, calendar_service), o))

\* the response is delivered and the server waits for the next call
Return ==
    /\ pc = "returned"
    /\ pc' = "idle"
    /\ req' = NoReq
    /\ calls' = <<>>
    /\ resp' = NoResp
    /\ UNCHANGED <<transport, user_timezone, calendar_service, norm, direct>>

Next ==
    \/ main \/ main_sse \/ import_server_sse
    \/ CallTool
    \/ HandleCallTool
    \/ GetEvents \/ ListCalendars \/ GetTimezoneInfo \/ GetCurrentDate
    \/ CheckAvailability \/ CreateEvent \/ DeleteEvent \/ UpdateEvent
    \/ Return

Spec == Init /\ [][Next]_vars

\* ------------------------------------------------------------------------
\* Vocabulary of the properties
\* ------------------------------------------------------------------------
\* an invocation has ended and its response has not been delivered yet
Served == pc = "returned"

ToolNames == {"get-events", "list-calendars", "get-timezone-info", "get-current-date",
              "check-availability", "create-event", "delete-event", "update-event"}

Mutations == {"events.insert", "events.patch"}

Checkers == {"check_time_slot_availability", "check_time_slot_conflicts"}

\* the free/busy queries issued by the availability check
AvailabilityChecks ==
    {i \in DOMAIN calls : calls[i].op = "freebusy.query" /\ calls[i].by \in Checkers}

Mutated == \E i \in DOMAIN calls : calls[i].op \in Mutations

IsEnvelope == resp.returned /\ resp.kind = "error" /\ resp.error # None

IsConflict == IsEnvelope /\ resp.status = "CONFLICT"

\* the mutation of the tool being served
MutationOf(tool) == IF tool = "create-event" THEN "events.insert" ELSE "events.patch"

\* the arguments of the call being served pass the validation of its tool
ArgsValid ==
    IF req.tool = "create-event" THEN CreateEventRequestValid(req.args)
    ELSE IF req.tool = "update-event" THEN UpdateEventRequestValid(req.args)
    ELSE TRUE

\* the invocation ended with an exception raised before the availability
\* check: the credential provider failed or a normalizer raised
Aborted == resp.cause \in {AuthError, "ValueError"}

BothTimes(a) == Truthy(a.start_datetime) /\ Truthy(a.end_datetime)

OneTime(a) == Truthy(a.start_datetime) # Truthy(a.end_datetime)

\* ------------------------------------------------------------------------
\* C1.  In both transports, when the free/busy query of the availability
\* check of a create-event or an update-event answers with a non-empty busy
\* list, the invocation returns the error envelope with status "CONFLICT"
\* and issues neither events.insert nor events.patch.
\* ------------------------------------------------------------------------
C1_ConflictBlocksMutation ==
    (Served /\ req.tool \in {"create-event", "update-event"}) =>
        \A i \in AvailabilityChecks :
            (calls[i].ok /\ calls[i].reply # <<>>) => (IsConflict /\ ~Mutated)

\* an update-event of server_sse.py with both times, refused for a busy slot
C1_Witness ==
    /\ Served /\ transport = "sse" /\ req.tool = "update-event"
    /\ BothTimes(req.args)
    /\ \E i \in AvailabilityChecks : calls[i].ok /\ Len(calls[i].reply) >= 1
    /\ IsConflict /\ ~Mutated

\* ------------------------------------------------------------------------
\* C2.  Fail-open: when the free/busy query of the availability check of a
\* create-event or an update-event fails, the invocation never returns the
\* CONFLICT envelope and goes on to events.insert (events.patch) exactly as
\* the same invocation does when the query succeeds with an empty busy list:
\* the same mutation calls and the same response.
\* ------------------------------------------------------------------------
FreeOracles == {o \in Oracles : o.freebusy_ok /\ o.busy = <<>>}

MutationCalls(cs) == SelectSeq(cs, LAMBDA c : c.op \in Mutations)

\* the invocation being served, run from the current caches under oracle o
Serve(o) ==
    IF transport = "stdio"
    THEN handle_call_tool(req.tool, req.args, World(user_timezone, calendar_service), o)
    ELSE IF req.tool = "create-event"
    THEN create_event(req.args, World(user_timezone, calendar_service), o)
    ELSE update_event(req.args, World(user_timezone, calendar_service), o)

SameAsFree(out) ==
    /\ MutationCalls(out.w.calls) = MutationCalls(calls')
    /\ out.resp = resp'

FailOpenStep ==
    (/\ pc = "called" /\ pc' = "returned"
     /\ req.tool \in {"create-event", "update-event"}
     /\ \E i \in DOMAIN calls' :
            /\ calls'[i].op = "freebusy.query" /\ calls'[i].by \in Checkers
            /\ ~calls'[i].ok)
    => /\ resp'.status # "CONFLICT"
       /\ \E i \in DOMAIN calls' : calls'[i].op = MutationOf(req.tool)
       /\ \E o \in FreeOracles : SameAsFree(Serve(o))

C2_FailOpen == [][FailOpenStep]_vars

\* a create-event whose free/busy query failed and whose insert succeeded
C2_Witness ==
    /\ Served /\ req.tool = "create-event"
    /\ \E i \in AvailabilityChecks : ~calls[i].ok
    /\ calls[Len(calls)].op = "events.insert" /\ calls[Len(calls)].ok
    /\ resp = Success

\* ------------------------------------------------------------------------
\* C3.  An update-event with none of the optional content fields set
\* (summary, description, location, colorId, visibility, transparency,
\* recurrence, reminders, attendees, start_datetime, end_datetime) issues no
\* call to the remote calendar service, and the invocation that reaches the
\* test (its arguments pass validation and the credential provider answers)
\* returns the error envelope "No fields provided to update".
\* ------------------------------------------------------------------------
NoContent(a) ==
    /\ \A f \in UpdateOptional : a[f] = Nothing
    /\ a.start_datetime = NoneStr /\ a.end_datetime = NoneStr

C3_NoFieldsNoRemoteCall ==
    (Served /\ req.tool = "update-event" /\ NoContent(req.args)) =>
        /\ calls = <<>>
        /\ (ArgsValid /\ ~Aborted) => resp = ErrorEnvelope(NoFields, None)

\* such an update-event served by server.py
C3_Witness ==
    /\ Served /\ transport = "stdio" /\ req.tool = "update-event"
    /\ NoContent(req.args) /\ ArgsValid
    /\ resp = ErrorEnvelope(NoFields, None) /\ calls = <<>>

\* ------------------------------------------------------------------------
\* C4.  The availability check runs in exactly these invocations: every
\* create-event that passes validation and every update-event that passes
\* validation with both start_datetime and end_datetime non-empty (unless an
\* exception ended the invocation before the check).  An update-event with
\* one of the two patches that one time field without a free/busy query, and
\* get-events, list-calendars, get-timezone-info and get-current-date never
\* issue a free/busy query.
\* ------------------------------------------------------------------------
CheckExpected ==
    /\ ArgsValid
    /\ \/ req.tool = "create-event"
       \/ req.tool = "update-event" /\ BothTimes(req.args)

PatchedTimes ==
    {f \in {"start", "end"} :
        \E i \in DOMAIN calls : calls[i].op = "events.patch" /\ f \in DOMAIN calls[i].args.body}

C5_ValidationIsLocal ==
    (Served /\ resp.cause = "ValidationError") => calls = <<>>

\* ------------------------------------------------------------------------
\* C6.  The body create-event sends to events.insert holds, apart from
\* summary, start and end, only the optional fields the caller supplied.
\* ------------------------------------------------------------------------
C6_OnlySuppliedFields ==
    Served =>
        \A i \in DOMAIN calls :
            calls[i].op = "events.insert" =>
                DOMAIN calls[i].args.body \subseteq
                    {"summary", "start", "end"}
                        \cup {f \in CreateOptional : req.args[f] # Nothing}

\* ------------------------------------------------------------------------
\* C7.  When the remote operation of a tool fails, or the tool name is
\* unknown, the invocation returns the error envelope {error: text} as its
\* result, in both transports, and the server goes on to the next call.
\* ------------------------------------------------------------------------
OwnOperationFailed ==
    \E i \in DOMAIN calls :
        /\ ~calls[i].ok
        /\ calls[i].by \in {"handle_call_tool", "get_events", "list_calendars",
                            "check_availability", "create_event", "delete_event",
                            "update_event"}

C7_FailureIsAnEnvelope ==
    (Served /\ (OwnOperationFailed \/ req.tool \notin ToolNames)) =>
        (IsEnvelope /\ ENABLED Return)

\* ------------------------------------------------------------------------
\* C8.  The normalizer is total and falls back to identity: it raises no
\* exception, and what it returns is either the input itself or the input's
\* date and time with a UTC offset appended (the parse succeeded).
\* ------------------------------------------------------------------------
Localized(t) ==
    /\ Len(t) = 25 /\ Parses(SubSeq(t, 1, 19))
    /\ t[20] \in {"+", "-"}

C8_TotalWithIdentityFallback ==
    norm.applied =>
        /\ ~norm.raised
        /\ norm.out = norm.input \/ Localized(norm.out)

\* ------------------------------------------------------------------------
\* C9.  For a bare date YYYY-MM-DD of the calendar and a timezone TZ, the
\* normalizer of either transport returns 00:00:00 of that date with the
\* UTC offset TZ has then; it never returns the bare date unchanged.
\* ------------------------------------------------------------------------
C9_BareDateIsLocalMidnight ==
    (/\ norm.applied
     /\ DateShape(norm.input) /\ Parses(norm.input \o Midnight)
     /\ norm.zone \in KnownZones)
    => norm.out = Localize(norm.input \o Midnight, norm.zone)

\* ------------------------------------------------------------------------
\* C10.  In create-event and update-event a naive timestamp
\* YYYY-MM-DDTHH:MM:SS is sent with its wall-clock fields kept and the
\* offset of the effective timezone (the timezone argument when given, the
\* session timezone otherwise), which is the timeZone sent next to it.
\* ------------------------------------------------------------------------
EffectiveZone == IF req.args.timezone # None THEN req.args.timezone ELSE user_timezone

GivenTime(side) == IF side = "start" THEN req.args.start_datetime
                   ELSE req.args.end_datetime

C10_OffsetAgreesWithTimeZone ==
    Served =>
        \A i \in DOMAIN calls :
            calls[i].op \in Mutations =>
                \A side \in {"start", "end"} \cap DOMAIN calls[i].args.body :
                    /\ calls[i].args.body[side].timeZone = EffectiveZone
                    /\ (Parses(GivenTime(side)) /\ EffectiveZone \in KnownZones) =>
                            calls[i].args.body[side].dateTime
                                = Localize(GivenTime(side), EffectiveZone)

\* ------------------------------------------------------------------------
\* C11: an input that ends in "Z" or in an explicit +HH:MM or -HH:MM suffix
\* is returned unchanged by the normalizer, whatever the timezone, in both
\* transports
\* ------------------------------------------------------------------------
HasOffsetSuffix(s) ==
    \/ EndsWith(s, <<"Z">>)
    \/ /\ Len(s) >= 6
       /\ LastN(s, 6)[1] \in {"+", "-"}
       /\ AllDigits(SubSeq(LastN(s, 6), 2, 3))
       /\ LastN(s, 6)[4] = ":"
       /\ AllDigits(SubSeq(LastN(s, 6), 5, 6))

C11_OffsetInputsUnchanged ==
    (norm.applied /\ HasOffsetSuffix(norm.input))
        => (~norm.raised /\ norm.out = norm.input)

\* ------------------------------------------------------------------------
\* C12: a naive date-time with fractional seconds is normalized like the
\* same date-time without the fraction: the fraction is discarded and the
\* result carries an explicit offset, in both transports; it is never
\* passed through without an offset
\* ------------------------------------------------------------------------
C12_FractionDiscarded ==
    (/\ norm.applied
     /\ FractionShape(norm.input)
     /\ Parses(SubSeq(norm.input, 1, 19)))
        => /\ ~norm.raised
           /\ Localized(norm.out)
           /\ SubSeq(norm.out, 1, 19) = SubSeq(norm.input, 1, 19)

\* ------------------------------------------------------------------------
\* C13: check-availability requires only timeMin and timeMax: a call that
\* supplies them and omits items, timeZone, calendarExpansionMax and
\* groupExpansionMax passes validation and issues the free/busy query; a
\* call missing timeMin or timeMax is rejected with a validation error
\* ------------------------------------------------------------------------
OnlyTimes(a) ==
    /\ a.timeMin # NoneStr /\ a.timeMax # NoneStr
    /\ a.items = Nothing /\ a.timeZone = Nothing
    /\ a.groupExpansionMax = Nothing /\ a.calendarExpansionMax = Nothing

C13_OnlyTimesRequired ==
    (Served /\ req.tool = "check-availability" /\ resp.cause # AuthError) =>
        /\ OnlyTimes(req.args) =>
                /\ resp.cause # "ValidationError"
                /\ \E i \in DOMAIN calls : calls[i].op = "freebusy.query"
        /\ (req.args.timeMin = NoneStr \/ req.args.timeMax = NoneStr) =>
                resp.cause = "ValidationError"

\* ------------------------------------------------------------------------
\* C14: every reminder override accepted by validation has minutes >= 0: a
\* create-event or update-event whose reminders.overrides holds a negative
\* minutes value is rejected with a validation error and makes no remote
\* mutation
\* ------------------------------------------------------------------------
NegativeReminder(a) ==
    /\ a.reminders # Nothing
    /\ \E i \in DOMAIN Val(a.reminders).overrides :
            Val(a.reminders).overrides[i].minutes < 0

C14_ReminderMinutesNonNegative ==
    (/\ Served /\ req.tool \in {"create-event", "update-event"}
     /\ NegativeReminder(req.args)
     /\ resp.cause # AuthError)
        => (resp.cause = "ValidationError" /\ ~Mutated)

\* ------------------------------------------------------------------------
\* C15: validation rejects, before any remote call, a create-event with
\* more than 25 attachments and a check-availability with
\* calendarExpansionMax > 50 or groupExpansionMax > 100; a request at or
\* below these bounds is not rejected on that account
\* ------------------------------------------------------------------------
Rejected == resp.cause = "ValidationError" /\ calls = <<>>

OverExpanded(a) ==
    \/ a.calendarExpansionMax # Nothing /\ Val(a.calendarExpansionMax) > 50
    \/ a.groupExpansionMax # Nothing /\ Val(a.groupExpansionMax) > 100

C15_SizeBoundsEnforced ==
    (Served /\ resp.cause # AuthError) =>
        /\ (req.tool = "create-event" /\ req.args.attachments # Nothing) =>
                IF Len(Val(req.args.attachments)) > MaxAttachments THEN Rejected
                ELSE CreateEventRequestValid([req.args EXCEPT !.attachments = Nothing])
                        => resp.cause # "ValidationError"
        /\ req.tool = "check-availability" =>
                IF OverExpanded(req.args) THEN Rejected
                ELSE FreeBusyRequestValid([req.args EXCEPT !.calendarExpansionMax = Nothing,
                                                          !.groupExpansionMax = Nothing])
                        => resp.cause # "ValidationError"

\* a create-event with one attachment too many, refused by server_sse.py
C15_Witness ==
    /\ Served /\ transport = "sse" /\ req.tool = "create-event"
    /\ req.args.attachments # Nothing
    /\ Len(Val(req.args.attachments)) = MaxAttachments + 1
    /\ Rejected

\* ------------------------------------------------------------------------
\* C16: a conflict response of create-event and of update-event carries,
\* besides status "CONFLICT", the list of the conflicting busy intervals,
\* one entry per busy interval returned by the free/busy query, in both
\* transports
\* ------------------------------------------------------------------------
C16_ConflictCarriesIntervals ==
    (Served /\ IsConflict) =>
        /\ resp.conflicting_events # Nothing
        /\ \A i \in AvailabilityChecks :
                Len(Val(resp.conflicting_events)) = Len(calls[i].reply)

\* ------------------------------------------------------------------------
\* C17: the two transports dispatch to the same logic: for the same tool,
\* the same arguments, the same cache state and the same behaviour of the
\* remote service, the handler of server.py and the tool of server_sse.py
\* issue the same sequence of remote calls with the same parameters and end
\* in the same kind of outcome
\* ------------------------------------------------------------------------
\* the tool of server_sse.py registered under the name
SseTool(name, a, w, o) ==
    CASE name = "get-events" -> get_events(a, w, o)
      [] name = "list-calendars" -> list_calendars(a, w, o)
      [] name \in {"get-timezone-info", "get-current-date"} -> get_timezone_info(a, w, o)
      [] name = "check-availability" -> check_availability(a, w, o)
      [] name = "create-event" -> create_event(a, w, o)
      [] name = "delete-event" -> delete_event(a, w, o)
      [] name = "update-event" -> update_event(a, w, o)

\* the remote calls of an outcome, without the name of the function that
\* issued them
RemoteCalls(out) ==
    [i \in DOMAIN out.w.calls |->
        [op |-> out.w.calls[i].op, ok |-> out.w.calls[i].ok,
         args |-> out.w.calls[i].args, reply |-> out.w.calls[i].reply]]

OutcomeKind(r) ==
    IF r.cause = "ValidationError" THEN "validation error"
    ELSE IF r.status = "CONFLICT" THEN "CONFLICT"
    ELSE IF r.kind \in {"resource", "success"} THEN "success"
    ELSE "error"

SameBehaviour(a, b) ==
    RemoteCalls(a) = RemoteCalls(b) /\ OutcomeKind(a.resp) = OutcomeKind(b.resp)

C17_TransportsAgree ==
    (pc = "called" /\ transport = "sse" /\ calendar_service # None) =>
        \A o \in RelevantOracles :
            SameBehaviour(
                SseTool(req.tool, req.args, World(user_timezone, calendar_service), o),
                handle_call_tool(req.tool, req.args,
                                 World(user_timezone, calendar_service), o))

\* ------------------------------------------------------------------------
\* C18: timezone resolution with a failing settings query: the first call
\* whose settings query fails stores "UTC" in the cache and returns "UTC";
\* every later call returns "UTC" without another settings query, even if
\* the remote service would now answer
\* ------------------------------------------------------------------------
C18_FailureCachesUtc ==
    direct.fn = "get_user_timezone" =>
        \A i \in DOMAIN direct.log :
            (direct.log[i].queried /\ direct.log[i].settings = "fail") =>
                /\ direct.log[i].ret = "UTC"
                /\ user_timezone = "UTC"
                /\ \A j \in DOMAIN direct.log :
                        j > i => (direct.log[j].ret = "UTC" /\ ~direct.log[j].queried)

\* server_sse.py: the first query failed, the endpoint would answer
\* "America/New_York" at the second call, which is served from the cache
C18_Witness ==
    /\ direct.fn = "get_user_timezone" /\ transport = "sse"
    /\ Len(direct.log) >= 2
    /\ direct.log[1].queried /\ direct.log[1].settings = "fail"
    /\ direct.log[2].settings = "America/New_York"
    /\ direct.log[2].ret = "UTC" /\ ~direct.log[2].queried
    /\ user_timezone = "UTC"

\* ------------------------------------------------------------------------
\* C19: check_time_slot_conflicts never raises: when its free/busy query,
\* or anything else inside the check, fails, it returns a report with
\* has_conflicts = false, conflicts = [] and a non-null error string
\* ------------------------------------------------------------------------
\* the free/busy queries the check issued that were answered
AnsweredQueries ==
    {i \in DOMAIN calls : calls[i].op = "freebusy.query" /\ calls[i].ok}

C19_FailureIsReported ==
    (direct.fn = "check_time_slot_conflicts" /\ direct.applied /\ AnsweredQueries = {})
        => /\ direct.has_conflicts = FALSE
           /\ direct.conflicts = <<>>
           /\ direct.error # None

\* the free/busy query was sent and failed
C19_Witness ==
    /\ direct.fn = "check_time_slot_conflicts" /\ direct.applied
    /\ \E i \in DOMAIN calls : calls[i].op = "freebusy.query" /\ ~calls[i].ok
    /\ direct.has_conflicts = FALSE /\ direct.conflicts = <<>>
    /\ direct.error = HttpError

\* ------------------------------------------------------------------------
\* C20: when the free/busy query succeeds, check_time_slot_conflicts
\* returns has_conflicts = (number of busy intervals > 0), error = null and
\* a conflicts list with one entry per busy interval in the same order: the
\* interval converted to the resolved timezone when the conversion
\* succeeds, the raw busy interval when it fails
\* ------------------------------------------------------------------------
\* the offset, in minutes, written at the end of a localized text
SuffixOffset(t) ==
    (IF t[20] = "-" THEN -1 ELSE 1) * (60 * Num(SubSeq(t, 21, 22)) + Num(SubSeq(t, 24, 25)))

\* the localized text t names the UTC instant u at the offset zone has then
SameInstantIn(t, u, zone) ==
    /\ Localized(t)
    /\ SuffixOffset(t) = UtcOffsetAt(zone, Fields(u))
    /\ astimezone(Fields(t), -SuffixOffset(t)) = Fields(u)

EntryFor(e, slot, zone) ==
    IF FromIsoUtc(slot.start) /\ FromIsoUtc(slot.end)
    THEN /\ DOMAIN e = {"start", "end", "timezone", "start_display", "end_display"}
         /\ e.timezone = zone
         /\ SameInstantIn(e.start, slot.start, zone)
         /\ SameInstantIn(e.end, slot.end, zone)
    ELSE e = slot

C20_OneEntryPerBusySlot ==
    (direct.fn = "check_time_slot_conflicts" /\ direct.applied) =>
        \A i \in AnsweredQueries :
            /\ direct.has_conflicts = (Len(calls[i].reply) > 0)
            /\ direct.error = None
            /\ Len(direct.conflicts) = Len(calls[i].reply)
            /\ \A k \in DOMAIN calls[i].reply :
                    EntryFor(direct.conflicts[k], calls[i].reply[k], user_timezone)

\* two busy slots, the first converted to Asia/Kolkata (the next day
\* there), the second left as it came
C20_Witness ==
    /\ direct.fn = "check_time_slot_conflicts" /\ direct.applied
    /\ user_timezone = "Asia/Kolkata"
    /\ direct.has_conflicts /\ direct.error = None
    /\ Len(direct.conflicts) = 2
    /\ DOMAIN direct.conflicts[1] # {"start", "end"}
    /\ direct.conflicts[1].start =
            DateText(2024, 1, 11) \o <<"T", "0", "2", ":", "0", "0", ":", "0", "0">>
                \o <<"+", "0", "5", ":", "3", "0">>
    /\ direct.conflicts[2] = [start |-> <<"?">>, end |-> <<"?">>]

\* ------------------------------------------------------------------------
\* C21: round trip of attendees: the body create-event sends holds an
\* attendees list of the same length as the request's, whose entries have
\* the email of the request, and responseStatus "needsAction" and
\* additionalGuests 0 when the request gives none
\* ------------------------------------------------------------------------
\* entry e of the body carries the defaults of what attendee a leaves out
DefaultsFilled(e, a) ==
    /\ {"email", "responseStatus", "additionalGuests"} \subseteq DOMAIN e
    /\ a.responseStatus = Nothing => e.responseStatus = "needsAction"
    /\ a.additionalGuests = Nothing => e.additionalGuests = 0

\* the attendees of the events.insert calls, against those of the request:
\* the email as given (exact) or in the normalized form of EmailStr
AttendeesSent(exact) ==
    (Served /\ req.tool = "create-event" /\ req.args.attendees # Nothing) =>
        \A i \in DOMAIN calls :
            calls[i].op = "events.insert" =>
                /\ "attendees" \in DOMAIN calls[i].args.body
                /\ Len(calls[i].args.body.attendees) = Len(Val(req.args.attendees))
                /\ \A k \in DOMAIN Val(req.args.attendees) :
                        /\ DefaultsFilled(calls[i].args.body.attendees[k],
                                          Val(req.args.attendees)[k])
                        /\ calls[i].args.body.attendees[k].email =
                                IF exact THEN Val(req.args.attendees)[k].email
                                ELSE EmailStr(Val(req.args.attendees)[k].email)

C21_AttendeesRoundTrip == AttendeesSent(TRUE)

\* C21 as amended: the entry has the email of the request in the normalized
\* form EmailStr stores (the domain in lower case), which is the email
\* itself when its domain is written in lower case
C21_AttendeesRoundTripNormalized == AttendeesSent(FALSE)

\* two attendees sent by server.py, the first with an upper-case domain
C21_Witness ==
    /\ Served /\ transport = "stdio" /\ req.tool = "create-event"
    /\ req.args.attendees # Nothing /\ Len(Val(req.args.attendees)) = 2
    /\ \E i \in DOMAIN calls :
        /\ calls[i].op = "events.insert"
        /\ Len(calls[i].args.body.attendees) = 2
        /\ calls[i].args.body.attendees[1].email = <<"A", "@", "x", ".", "c", "o", "m">>
        /\ calls[i].args.body.attendees[1].responseStatus = "needsAction"
        /\ calls[i].args.body.attendees[1].additionalGuests = 0

\* ------------------------------------------------------------------------
\* C22: the calendar service handle is created once per process: once an
\* invocation has asked the credential provider and built the handle, no
\* later invocation asks the provider or builds a handle again, in either
\* transport
\* ------------------------------------------------------------------------
C22_HandleBuiltOnce ==
    direct.fn = "get_user_timezone" =>
        \A i, j \in DOMAIN direct.handles :
            (i < j /\ direct.handles[i].built) =>
                (~direct.handles[j].asked /\ ~direct.handles[j].built)

\* ------------------------------------------------------------------------
\* C23: the timezone cache is write-once under sequential execution: once
\* a resolution has left a value in the cache, every later resolution
\* returns that value, issues no settings query and leaves the cache as it
\* was, whatever the settings endpoint would answer
\* ------------------------------------------------------------------------
C23_TimezoneWriteOnce ==
    direct.fn = "get_user_timezone" =>
        \A i, j \in DOMAIN direct.log :
            (i < j /\ direct.log[i].cache # None) =>
                /\ direct.log[j].ret = direct.log[i].cache
                /\ direct.log[j].cache = direct.log[i].cache
                /\ ~direct.log[j].queried
                /\ user_timezone = direct.log[i].cache

\* server.py: the first call stored "America/New_York"; at the second call
\* the endpoint would have failed, and the call answered from the cache
C23_Witness ==
    /\ direct.fn = "get_user_timezone" /\ transport = "stdio"
    /\ Len(direct.log) >= 2
    /\ direct.log[1].queried /\ direct.log[1].cache = "America/New_York"
    /\ direct.log[2].settings = "fail"
    /\ direct.log[2].ret = "America/New_York" /\ ~direct.log[2].queried

\* ------------------------------------------------------------------------
\* C24: server_sse.py: a timezone resolution made while no service handle
\* exists returns "UTC" and stores that "UTC" in the cache, so that every
\* later resolution returns "UTC", also after the handle has been created
\* ------------------------------------------------------------------------
C24_PrematureUtcFreezes ==
    (direct.fn = "get_user_timezone" /\ transport = "sse") =>
        \A i \in DOMAIN direct.log :
            ~direct.log[i].handle =>
                /\ direct.log[i].ret = "UTC"
                /\ direct.log[i].cache = "UTC"
                /\ \A j \in DOMAIN direct.log : j > i => direct.log[j].ret = "UTC"

\* ------------------------------------------------------------------------
\* C25: concurrent first use of the timezone cache is benign: whatever the
\* interleaving of the invocations between the test of the cache and its
\* write, and although some of their settings queries may fail, all of the
\* invocations obtain the same timezone, and the cache, once it holds a
\* value, never changes to a different one
\* ------------------------------------------------------------------------
C25_RaceIsBenign ==
    [][direct.fn = "race" =>
          /\ user_timezone # None => user_timezone' = user_timezone
          /\ \A t, u \in Threads :
                (direct'.th[t].at = "done" /\ direct'.th[u].at = "done")
                    => direct'.th[t].ret = direct'.th[u].ret]_vars

\* ------------------------------------------------------------------------
\* C26: the availability check and events.insert are two separate remote
\* calls: a create-event whose free/busy query returned an empty busy list
\* inserts its event and reports success whatever was added to the
\* calendar before its events.insert ran, so two overlapping events
\* created through the server can be on the calendar
\* ------------------------------------------------------------------------
\* invocation i had an empty busy list from an answered free/busy query
FoundFree(i) ==
    \E k \in DOMAIN direct.inv[i].c.w.calls :
        /\ direct.inv[i].c.w.calls[k].op = "freebusy.query"
        /\ direct.inv[i].c.w.calls[k].ok
        /\ direct.inv[i].c.w.calls[k].reply = <<>>

OnCalendar(i) == \E k \in DOMAIN direct.events : direct.events[k].by = i

C26_CheckThenActIsNotAtomic ==
    direct.fn = "create_event" =>
        \A i \in DOMAIN direct.inv :
            (direct.inv[i].done /\ FoundFree(i) /\ direct.inv[i].c.o.op_ok) =>
                (direct.inv[i].c.resp.kind = "success" /\ OnCalendar(i))

\* two invocations found their overlapping windows free, both reported
\* success and both events are on the calendar
C26_Witness ==
    /\ direct.fn = "create_event" /\ Len(direct.inv) = 2
    /\ \A i \in {1, 2} : /\ direct.inv[i].done /\ FoundFree(i) /\ OnCalendar(i)
                          /\ direct.inv[i].c.resp.kind = "success"
    /\ Overlaps(direct.inv[1].win, direct.inv[2].win)

\* ------------------------------------------------------------------------
\* C27: no remote call is retried and no failure is hidden: when a remote
\* call of an invocation fails, the invocation issues no further call of
\* the same operation and its response to the caller is an error
\* ------------------------------------------------------------------------
C27_FailuresSurface ==
    pc = "returned" =>
        \A i \in DOMAIN calls :
            ~calls[i].ok =>
                /\ \A j \in DOMAIN calls : j > i => calls[j].op # calls[i].op
                /\ resp.kind \in {"error", "raised"}

\* ------------------------------------------------------------------------
\* C28: an update-event that supplies both start and end is refused with
\* CONFLICT and sends no patch whenever the free/busy query over the new
\* interval returns any busy interval, be it only one, that of the event
\* being updated: the query names the calendar and the interval and
\* nothing else, and no interval of the reply is set aside
\* ------------------------------------------------------------------------
C28_OwnSlotCountsAsBusy ==
    (Served /\ req.tool = "update-event" /\ BothTimes(req.args)) =>
        \A i \in AvailabilityChecks :
            /\ DOMAIN calls[i].args = {"timeMin", "timeMax", "items"}
            /\ calls[i].args.items = <<Val(req.args.calendarId)>>
            /\ (calls[i].ok /\ Len(calls[i].reply) >= 1) =>
                    /\ IsConflict
                    /\ \A j \in DOMAIN calls : calls[j].op # "events.patch"

\* server.py: the reply holds a single busy interval and the update is
\* refused
C28_Witness ==
    /\ Served /\ transport = "stdio" /\ req.tool = "update-event"
    /\ BothTimes(req.args)
    /\ \E i \in AvailabilityChecks : calls[i].ok /\ Len(calls[i].reply) = 1
    /\ resp.status = "CONFLICT"
    /\ \A j \in DOMAIN calls : calls[j].op # "events.patch"

\* ------------------------------------------------------------------------
\* C29: the normalizer of either transport is idempotent: applied to its
\* own result with the same timezone it returns that result again, so a
\* second normalization of an already normalized timestamp changes nothing
\* ------------------------------------------------------------------------
C29_NormalizerIdempotent ==
    norm.again => (~norm.raised2 /\ norm.out2 = norm.out)

\* server.py: a naive time was given the offset of America/New_York, and
\* the second application returned that text again
C29_Witness ==
    /\ norm.again /\ norm.impl = "stdio" /\ norm.zone = "America/New_York"
    /\ DateTimeShape(norm.input) /\ norm.out # norm.input
    /\ Len(norm.out) = 25 /\ norm.out2 = norm.out

\* ------------------------------------------------------------------------
\* C30: server_sse.py: after a successful startup initialization both
\* caches, the service handle and the timezone, hold a value; an invocation
\* that finds both caches filled leaves them as they are, issues no
\* settings query and does not ask the credential provider: what the
\* provider and the settings endpoint would answer makes no difference
\* ------------------------------------------------------------------------
\* the outcome out of an invocation kept both caches and asked neither the
\* settings endpoint nor, being equal to the outcome ref obtained with
\* another credential provider and settings endpoint, the provider
CachesUntouched(out, ref) ==
    /\ out.w.tz = user_timezone /\ out.w.svc = calendar_service
    /\ \A i \in DOMAIN out.w.calls : out.w.calls[i].op # "settings.get"
    /\ out = ref

C30_CachesFilledAtStartupStay ==
    /\ (\E i \in DOMAIN calls : calls[i].by = "initialize_calendar_service")
            => (calendar_service # None /\ user_timezone # None)
    /\ (pc = "called" /\ transport = "sse"
            /\ calendar_service # None /\ user_timezone # None) =>
        \A o \in RelevantOracles :
            CachesUntouched(
                SseTool(req.tool, req.args, World(user_timezone, calendar_service), o),
                SseTool(req.tool, req.args, World(user_timezone, calendar_service),
                        [o EXCEPT !.auth = ~o.auth,
                                  !.settings = IF @ = "fail" THEN "Asia/Kolkata" ELSE "fail"]))

\* create_event served from both caches: the event was inserted and no
\* settings query was issued
C30_Witness ==
    /\ pc = "returned" /\ transport = "sse" /\ req.tool = "create-event"
    /\ calendar_service # None /\ user_timezone = "Asia/Kolkata"
    /\ req.args.timezone = None
    /\ \E i \in DOMAIN calls : calls[i].op = "events.insert"
    /\ \A i \in DOMAIN calls : calls[i].op # "settings.get"

====
